---- MODULE Spec2Model ----
(***************************************************************************)
(* Axis / scale / label-layout core of the Power BI visuals (AxisHelper in *)
(* funnelChart.ts and TextMeasurementService).                             *)
(*                                                                         *)
(* The module is a library of synchronous functions.  Each function is an  *)
(* operator computed the way the TypeScript computes it, and each action   *)
(* of the state machine is one call: it draws the arguments from bounded   *)
(* sets and records the call (op, args) together with what it returned     *)
(* (ret).                                                                  *)
(*                                                                         *)
(* Numbers.  A JavaScript number is modelled as an exact fixed-point       *)
(* decimal: the integer n stands for n * 1e-6.  Floating-point rounding is *)
(* outside the model.  NaN and null are two integers outside the numeric   *)
(* range; every comparison that involves NaN is modelled as false, as in   *)
(* JavaScript.                                                             *)
(***************************************************************************)
EXTENDS Integers, Sequences, FiniteSets, TLC

VARIABLES op, args, ret, storage, stored, charts

vars == <<op, args, ret, storage, stored, charts>>

(***************************************************************************)
(* Bounds of the model.                                                    *)
(***************************************************************************)
MaxTiny == 3
MaxBig == 5
MaxLabels == 7
MaxBound == 2
MaxTicksBound == 6
MaxTextLen == 5
MaxWidth == 4
MaxGenerated == 4
MaxSearchLen == 4

(***************************************************************************)
(* Number representation.                                                  *)
(***************************************************************************)
\* 1e-4, the threshold of normalizeLinearDomain, in units of 1e-6.
Epsilon == 100
One == 10000 * Epsilon
NaN == 0 - (2 ^ 30)
Null == NaN - 1

IsNaN(x) == x = NaN

Abs(x) == IF x < 0 THEN 0 - x ELSE x

\* a * num / den, exact on the values the model draws (multiples of den).
Times(a, num, den) == (a * num) \div den

\* a / b < 1e-4 for b # 0, by cross-multiplication.
RatioBelowEpsilon(a, b) ==
    IF b > 0 THEN a * 10000 < b ELSE a * 10000 > b

TinyValues == {40 * k : k \in (0 - MaxTiny)..MaxTiny}
BigValues == {k * One : k \in (0 - MaxBig)..MaxBig}
Numbers == TinyValues \cup BigValues
NumbersOrNaN == Numbers \cup {NaN}

fallBackDomain == <<0, 10 * One>>

(***************************************************************************)
(* AxisHelper.normalizeLinearDomain                                        *)
(***************************************************************************)
\* normalizeLinearDomain without the sign test of the 20% expansion.
normalizeLinearDomainUnsigned(domain) ==
    IF IsNaN(domain.min) \/ IsNaN(domain.max)
    THEN [min |-> fallBackDomain[1], max |-> fallBackDomain[2]]
    ELSE IF domain.min = 0 /\ domain.max = 0
    THEN [min |-> domain.min, max |-> fallBackDomain[2]]
    ELSE IF domain.min = domain.max
    THEN [min |-> Times(domain.min, 4, 5), max |-> Times(domain.max, 6, 5)]
    ELSE IF /\ Abs(domain.min) < Epsilon
            /\ RatioBelowEpsilon(domain.min, domain.max - domain.min)
    THEN [min |-> 0, max |-> domain.max]
    ELSE domain

normalizeLinearDomain(domain) ==
    IF IsNaN(domain.min) \/ IsNaN(domain.max)
    THEN [min |-> fallBackDomain[1], max |-> fallBackDomain[2]]
    ELSE IF domain.min = 0 /\ domain.max = 0
    THEN [min |-> domain.min, max |-> fallBackDomain[2]]
    ELSE IF domain.min = domain.max
    THEN [min |-> IF domain.min < 0 THEN Times(domain.min, 6, 5)
                                    ELSE Times(domain.min, 4, 5),
          max |-> IF domain.max < 0 THEN Times(domain.max, 4, 5)
                                    ELSE Times(domain.max, 6, 5)]
    ELSE IF /\ Abs(domain.min) < Epsilon
            /\ RatioBelowEpsilon(domain.min, domain.max - domain.min)
    THEN [min |-> 0, max |-> domain.max]
    ELSE domain

(***************************************************************************)
(* AxisHelper.combineDomain                                                *)
(***************************************************************************)
\* JavaScript a > b on numbers: false when either side is NaN.
JsGreater(a, b) == ~IsNaN(a) /\ ~IsNaN(b) /\ a > b

\* combineDomain without the fall-back to the computed domain.
combineDomainNoFallback(forcedDomain, domain) ==
    LET c0 == IF forcedDomain[1] # Null THEN forcedDomain[1] ELSE domain[1]
        c1 == IF forcedDomain[2] # Null THEN forcedDomain[2] ELSE domain[2]
    IN  <<c0, c1>>

combineDomain(forcedDomain, domain) ==
    LET c0 == IF forcedDomain[1] # Null THEN forcedDomain[1] ELSE domain[1]
        c1 == IF forcedDomain[2] # Null THEN forcedDomain[2] ELSE domain[2]
    IN  IF JsGreater(c0, c1) THEN domain ELSE <<c0, c1>>

(***************************************************************************)
(* AxisHelper.getRecommendedTickValuesForAnOrdinalRange                    *)
(***************************************************************************)
RECURSIVE OrdinalLoop(_, _, _, _)
\* for (i = 0; i < len; i += step) tickLabels.push(labels[i])
OrdinalLoop(labels, i, step, tickLabels) ==
    IF i < Len(labels)
    THEN OrdinalLoop(labels, i + step, step, Append(tickLabels, labels[i + 1]))
    ELSE tickLabels

\* The ordinal stride rounded up instead of down.
getRecommendedTickValuesForAnOrdinalRangeCeil(maxTicks, labels) ==
    IF maxTicks <= 0 THEN <<>>
    ELSE IF maxTicks > Len(labels) THEN labels
    ELSE OrdinalLoop(labels, 0,
                     (Len(labels) + maxTicks - 1) \div maxTicks, <<>>)

getRecommendedTickValuesForAnOrdinalRange(maxTicks, labels) ==
    IF maxTicks <= 0 THEN <<>>
    ELSE IF maxTicks > Len(labels) THEN labels
    ELSE OrdinalLoop(labels, 0, Len(labels) \div maxTicks, <<>>)

(***************************************************************************)
(* TextMeasurementService.getTailoredTextOrDefault                         *)
(*                                                                         *)
(* A string is a sequence of characters.  The text measurer               *)
(* (measureSvgTextWidth) is an argument of the model: a function from the  *)
(* length of the measured string to its width in pixels.                   *)
(***************************************************************************)
dotsString == <<".", ".", ".">>

SampleText == <<"H", "e", "l", "l", "o", " ", "W", "o", "r", "l", "d">>

Min2(a, b) == IF a < b THEN a ELSE b

\* String.prototype.substr(start, length) for start >= 0.
Substr(s, start, length) ==
    IF length <= 0 \/ start >= Len(s)
    THEN <<>>
    ELSE SubSeq(s, start + 1, Min2(start + length, Len(s)))

measureSvgTextWidth(measurer, text) ==
    IF Len(text) = 0 THEN 0 ELSE measurer[Len(text)]

RECURSIVE TailorSearch(_, _, _, _, _, _, _)
\* while (min <= max) { i = (min + max) / 2 | 0; ... }
TailorSearch(measurer, text, maxWidth, min, max, i, iterations) ==
    IF min <= max
    THEN LET mid == (min + max) \div 2
             width == measureSvgTextWidth(measurer, Substr(text, 0, mid))
         IN  IF maxWidth > width
             THEN TailorSearch(measurer, text, maxWidth, mid + 1, max, mid,
                               iterations + 1)
             ELSE IF maxWidth < width
             THEN TailorSearch(measurer, text, maxWidth, min, mid - 1, mid,
                               iterations + 1)
             ELSE [i |-> mid, min |-> min, max |-> max,
                   iterations |-> iterations + 1]
    ELSE [i |-> i, min |-> min, max |-> max, iterations |-> iterations]

\* getTailoredTextOrDefault without the final step back by one.
getTailoredTextOrDefaultNoStepBack(measurer, propertiesText, maxWidth) ==
    IF Len(propertiesText) = 0
    THEN [text |-> propertiesText, propertiesText |-> propertiesText,
          iterations |-> 0]
    ELSE IF measureSvgTextWidth(measurer, propertiesText) < maxWidth
    THEN [text |-> propertiesText, propertiesText |-> propertiesText,
          iterations |-> 0]
    ELSE LET text == dotsString \o propertiesText
             found == TailorSearch(measurer, text, maxWidth, 1, Len(text), 3, 0)
         IN  [text |-> Substr(text, 3, found.i - 3) \o dotsString,
              propertiesText |-> Substr(text, 0, found.i),
              iterations |-> found.iterations]

getTailoredTextOrDefault(measurer, propertiesText, maxWidth) ==
    IF Len(propertiesText) = 0
    THEN [text |-> propertiesText, propertiesText |-> propertiesText,
          iterations |-> 0]
    ELSE IF measureSvgTextWidth(measurer, propertiesText) < maxWidth
    THEN [text |-> propertiesText, propertiesText |-> propertiesText,
          iterations |-> 0]
    ELSE LET text == dotsString \o propertiesText
             found == TailorSearch(measurer, text, maxWidth, 1, Len(text), 3, 0)
             last == Substr(text, 0, found.i)
             i == IF measureSvgTextWidth(measurer, last) > maxWidth
                  THEN found.i - 1
                  ELSE found.i
         IN  [text |-> Substr(text, 3, i - 3) \o dotsString,
              propertiesText |-> last,
              iterations |-> found.iterations]

(***************************************************************************)
(* d3.scale.linear as AxisHelper uses it (d3 version 3): the tick step of  *)
(* d3_scale_linearTickRange, nice(m) and ticks(m).                         *)
(***************************************************************************)
RECURSIVE PowerOfTenBelow(_, _, _)
\* The largest p = 10^k, k >= 0, with p * m <= s; p is the running power.
PowerOfTenBelow(s, m, p) ==
    IF 10 * p * m <= s THEN PowerOfTenBelow(s, m, 10 * p) ELSE p

\* d3_scaleExtent: the two ends of the domain in ascending order.
d3ScaleExtent(domain) ==
    IF domain[1] < domain[2] THEN domain ELSE <<domain[2], domain[1]>>

\* The step of d3_scale_linearTickRange(domain, m) for m >= 1:
\*   step = 10^floor(log10(span / m)); err = m / span * step;
\*   err <= .15: step * 10, err <= .35: step * 5, err <= .75: step * 2.
\* The step is computed in tenths of the unit.  The result is 0 when the
\* step is below the unit; such a step (1, 2 or 5 times a negative power of
\* ten of the unit) divides every number of the model.
d3LinearTickStep(domain, m) ==
    LET extent == d3ScaleExtent(domain)
        span10 == 10 * (extent[2] - extent[1])
    IN  IF span10 < m
        THEN 0
        ELSE LET p == PowerOfTenBelow(span10, m, 1)
                 step10 == IF m * p <= (3 * span10) \div 20 THEN 10 * p
                           ELSE IF m * p <= (7 * span10) \div 20 THEN 5 * p
                           ELSE IF m * p <= (3 * span10) \div 4 THEN 2 * p
                           ELSE p
             IN  IF step10 % 10 = 0 THEN step10 \div 10 ELSE 0

FloorTo(x, step) == (x \div step) * step
CeilTo(x, step) == 0 - FloorTo(0 - x, step)

\* d3_scale_nice: the lower end is floored and the upper end is ceiled to
\* a multiple of the step, whichever way round the domain is.
d3LinearNice(domain, m) ==
    LET step == d3LinearTickStep(domain, m)
    IN  IF step = 0 THEN domain
        ELSE IF domain[2] < domain[1]
        THEN <<CeilTo(domain[1], step), FloorTo(domain[2], step)>>
        ELSE <<FloorTo(domain[1], step), CeilTo(domain[2], step)>>

\* d3.range(start, stop, step) of the tick range: every multiple of the
\* step inside the extent of the domain.
d3LinearTicks(domain, m) ==
    LET extent == d3ScaleExtent(domain)
        step == d3LinearTickStep(domain, m)
    IN  IF extent[1] = extent[2] \/ step = 0
        THEN <<>>
        ELSE LET start == CeilTo(extent[1], step)
                 stop == FloorTo(extent[2], step)
             IN  [j \in 1..((stop - start) \div step + 1) |->
                      start + (j - 1) * step]

(***************************************************************************)
(* The scales of d3 as AxisHelper builds them.  A scale is the record of   *)
(* its kind, its domain and its range.                                     *)
(***************************************************************************)
\* The timestamps of 2014-02-01 and 2015-02-01, in units of 10 seconds.
fallbackDateDomain == <<139121280, 142274880>>

InnerPaddingRatio == <<1, 5>>
MinOrdinalRectThickness == 20

\* log10 of the mantissas 1.0, 1.1, ..., 10.0, times LogOne.
Log10Table ==
    <<
       0, 4139, 7918, 11394, 14613, 17609, 20412, 23045, 25527, 27875,
       30103, 32222, 34242, 36173, 38021, 39794, 41497, 43136, 44716, 46240,
       47712, 49136, 50515, 51851, 53148, 54407, 55630, 56820, 57978, 59106,
       60206, 61278, 62325, 63347, 64345, 65321, 66276, 67210, 68124, 69020,
       69897, 70757, 71600, 72428, 73239, 74036, 74819, 75587, 76343, 77085,
       77815, 78533, 79239, 79934, 80618, 81291, 81954, 82607, 83251, 83885,
       84510, 85126, 85733, 86332, 86923, 87506, 88081, 88649, 89209, 89763,
       90309, 90849, 91381, 91908, 92428, 92942, 93450, 93952, 94448, 94939,
       95424, 95904, 96379, 96848, 97313, 97772, 98227, 98677, 99123, 99564,
       100000
    >>

LogOne == Log10Table[91]

RECURSIVE Log10Floor(_, _)
\* The largest k with 10^k <= x, for x >= 1.
Log10Floor(x, k) == IF x >= 10 THEN Log10Floor(x \div 10, k + 1) ELSE k

RECURSIVE Pow10(_)
Pow10(k) == IF k <= 0 THEN 1 ELSE 10 * Pow10(k - 1)

\* Math.log(x) / Math.LN10 of the number x > 0 (x counts units of 1e-6),
\* times LogOne: the table at the first two digits of x, interpolated on
\* the next two.  It is exact on powers of ten and strictly increasing.
Log10(x) ==
    LET k == Log10Floor(x, 0)
        m == IF k >= 3 THEN x \div Pow10(k - 3) ELSE x * Pow10(3 - k)
        cell == m \div 100 - 9
    IN  (k - 6) * LogOne
        + Log10Table[cell]
        + ((Log10Table[cell + 1] - Log10Table[cell]) * (m % 100)) \div 100

\* The log of d3.scale.log: log10(x) on a positive domain, -log10(-x) on a
\* negative one.
d3Log(x) == IF x > 0 THEN Log10(x) ELSE 0 - Log10(0 - x)

\* The inverse of d3Log on whole powers of ten.
d3Pow(l, positive) ==
    LET k == l \div LogOne
        p == IF positive THEN k + 6 ELSE (0 - k) + 6
    IN  IF positive THEN Pow10(p) ELSE 0 - Pow10(p)

\* d3.scale.log().nice(): the ends of the domain go to the powers of ten
\* that enclose them.
d3LogNice(domain) ==
    LET positive == domain[1] >= 0
        l0 == d3Log(domain[1])
        l1 == d3Log(domain[2])
    IN  IF l1 < l0
        THEN <<d3Pow(CeilTo(l0, LogOne), positive),
               d3Pow(FloorTo(l1, LogOne), positive)>>
        ELSE <<d3Pow(FloorTo(l0, LogOne), positive),
               d3Pow(CeilTo(l1, LogOne), positive)>>

\* The candidate ticks of a log scale over the decades lo..hi: 1, 2, ..., 9
\* times every power of ten from 10^lo, and 10^hi itself.
LogTickCandidates(lo, hi) ==
    [j \in 1..(9 * (hi - lo) + 1) |->
         Pow10(lo + (j - 1) \div 9) * (((j - 1) % 9) + 1)]

\* The least k with x <= 10^k, for x >= 1.
Log10Ceil(x) ==
    IF Pow10(Log10Floor(x, 0)) = x THEN Log10Floor(x, 0)
    ELSE Log10Floor(x, 0) + 1

\* The ticks of a log scale over the positive extent u <= v.
LogTicksWithin(u, v) ==
    LET InExtent(t) == u <= t /\ t <= v
    IN  SelectSeq(LogTickCandidates(Log10Floor(u, 0), Log10Ceil(v)), InExtent)

\* The sequence in reverse order with every element negated.
NegatedReverse(seq) == [j \in 1..Len(seq) |-> 0 - seq[Len(seq) + 1 - j]]

\* d3.scale.log().ticks(): the count is ignored.  On a negative domain the
\* ticks are those of the mirrored positive extent, negated.
d3LogTicks(domain) ==
    IF d3ScaleExtent(domain)[1] > 0
    THEN LogTicksWithin(d3ScaleExtent(domain)[1], d3ScaleExtent(domain)[2])
    ELSE NegatedReverse(LogTicksWithin(0 - d3ScaleExtent(domain)[2],
                                       0 - d3ScaleExtent(domain)[1]))

\* scale.ticks(m) of a quantitative scale.
ScaleTicks(scale, m) ==
    IF scale.kind = "log" THEN d3LogTicks(scale.domain)
    ELSE d3LinearTicks(scale.domain, m)

RECURSIVE GCD(_, _)
GCD(a, b) == IF b = 0 THEN Abs(a) ELSE GCD(Abs(b), Abs(a) % Abs(b))

\* scale(x) - scale(y) for a linear or log scale, as the fraction num / den
\* of a pixel with den > 0.  With u the identity (linear) or d3Log (log),
\*   scale(x) = range[0] + (range[1] - range[0]) * (u(x) - u(d0)) / (u(d1) - u(d0)).
\* den = 0 stands for the NaN that a scale over a zero-width domain returns.
ScaleDifference(scale, x, y) ==
    LET u0 == IF scale.kind = "log" THEN d3Log(scale.domain[1])
                                    ELSE scale.domain[1]
        u1 == IF scale.kind = "log" THEN d3Log(scale.domain[2])
                                    ELSE scale.domain[2]
        ux == IF scale.kind = "log" THEN d3Log(x) ELSE x
        uy == IF scale.kind = "log" THEN d3Log(y) ELSE y
        g == GCD(ux - uy, u1 - u0)
        a == IF u1 = u0 THEN 0 ELSE (ux - uy) \div g
        b == IF u1 = u0 THEN 0 ELSE (u1 - u0) \div g
        num == (scale.range[2] - scale.range[1]) * a
    IN  IF b < 0 THEN [num |-> 0 - num, den |-> 0 - b]
                 ELSE [num |-> num, den |-> b]

\* scale(x) < scale(y) and scale(x) # scale(y); a comparison with NaN is
\* false, NaN differs from everything.
ScaleLess(scale, x, y) ==
    LET d == ScaleDifference(scale, x, y) IN d.den # 0 /\ d.num < 0

ScaleDiffers(scale, x, y) ==
    LET d == ScaleDifference(scale, x, y) IN d.den = 0 \/ d.num # 0

(***************************************************************************)
(* AxisHelper.getRecommendedTickValues and its three branches.             *)
(***************************************************************************)
MinTickCount == 2

isOrdinalScale(scale) == scale.kind = "ordinal"

\* A ValueType is the record of its flags; a missing type has none set, so
\* that (type && type.flag) is type.flag.
NoType ==
    [text |-> FALSE, numeric |-> FALSE, dateTime |-> FALSE, bool |-> FALSE,
     integer |-> FALSE]

isDateTime(type) == type.dateTime

ensureValuesInRange(values, min, max) ==
    LET InRange(v) == v >= min /\ v <= max
        filteredValues == SelectSeq(values, InRange)
    IN  IF Len(filteredValues) < 2 THEN <<min, max>> ELSE filteredValues

\* DateTimeSequence.calculate(...).sequence is the argument dateSequence.
getRecommendedTickValuesForADateTimeRange(dateSequence, dataDomain) ==
    ensureValuesInRange(dateSequence, dataDomain[1], dataDomain[2])

createTrueZeroTickLabel(ticks) ==
    IF Len(ticks) < 2
    THEN ticks
    ELSE LET closeZero == Abs(ticks[2] - ticks[1]) \div 100000
         IN  [j \in 1..Len(ticks) |->
                  IF Abs(ticks[j]) <= closeZero THEN 0 ELSE ticks[j]]

\* for (i = 1; i < length; i++) splice(i, 1): drops every second tick.
SpliceOdd(ticks) == [j \in 1..((Len(ticks) + 1) \div 2) |-> ticks[2 * j - 1]]

RECURSIVE TrimToMinInterval(_, _, _)
TrimToMinInterval(ticks, tickInterval, minInterval) ==
    IF tickInterval > 0 /\ tickInterval < minInterval
    THEN TrimToMinInterval(SpliceOdd(ticks), tickInterval * 2, minInterval)
    ELSE ticks

\* The calls of quantitiveScale.ticks made by
\* getRecommendedTickValuesForAQuantitativeRange for maxTicks # 0: calls is
\* the sequence of the counts asked for, generated the sequence of the
\* results, in the order of the calls.
QuantitativeTickCallsRetryUp(maxTicks, scale) ==
    LET first == ScaleTicks(scale, maxTicks)
        retry == Len(first) > maxTicks /\ maxTicks > 1
        second == IF retry THEN ScaleTicks(scale, maxTicks + 1)
                           ELSE first
        again == Len(second) < MinTickCount
    IN  [calls |-> <<maxTicks>>
                   \o (IF retry THEN <<maxTicks + 1>> ELSE <<>>)
                   \o (IF again THEN <<maxTicks + 1>> ELSE <<>>),
         generated |-> <<first>>
                       \o (IF retry THEN <<second>> ELSE <<>>)
                       \o (IF again
                           THEN <<ScaleTicks(scale, maxTicks + 1)>>
                           ELSE <<>>)]

QuantitativeTickCalls(maxTicks, scale) ==
    LET first == ScaleTicks(scale, maxTicks)
        retry == Len(first) > maxTicks /\ maxTicks > 1
        second == IF retry THEN ScaleTicks(scale, maxTicks - 1)
                           ELSE first
        again == Len(second) < MinTickCount
    IN  [calls |-> <<maxTicks>>
                   \o (IF retry THEN <<maxTicks - 1>> ELSE <<>>)
                   \o (IF again THEN <<maxTicks + 1>> ELSE <<>>),
         generated |-> <<first>>
                       \o (IF retry THEN <<second>> ELSE <<>>)
                       \o (IF again
                           THEN <<ScaleTicks(scale, maxTicks + 1)>>
                           ELSE <<>>)]

\* The last element of a non-empty sequence.
LastOf(seq) == seq[Len(seq)]

\* A lone tick left by the trimming gets a second one, minInterval above it.
EnsureSecondTick(trimmed, minInterval) ==
    IF Len(trimmed) = 1
    THEN Append(trimmed, trimmed[1] + minInterval)
    ELSE trimmed

\* The trimming of the tick labels that are closer than minInterval.
TrimTickLabels(tickLabels, minInterval) ==
    IF minInterval # 0 /\ Len(tickLabels) > 1
    THEN EnsureSecondTick(
             TrimToMinInterval(tickLabels, tickLabels[2] - tickLabels[1],
                               minInterval),
             minInterval)
    ELSE tickLabels

getRecommendedTickValuesForAQuantitativeRange(maxTicks, scale, minInterval) ==
    IF maxTicks = 0
    THEN <<>>
    ELSE TrimTickLabels(
             createTrueZeroTickLabel(
                 LastOf(QuantitativeTickCalls(maxTicks, scale).generated)),
             minInterval)

getRecommendedTickValues(maxTicks, scale, axisType, isScalar, minTickInterval, dateSequence) ==
    IF ~isScalar \/ isOrdinalScale(scale)
    THEN getRecommendedTickValuesForAnOrdinalRange(maxTicks, scale.domain)
    ELSE IF isDateTime(axisType)
    THEN getRecommendedTickValuesForADateTimeRange(dateSequence, scale.domain)
    ELSE getRecommendedTickValuesForAQuantitativeRange(maxTicks, scale,
                                                       minTickInterval)

(***************************************************************************)
(* AxisHelper.createScale and the functions it calls.                      *)
(***************************************************************************)
DefaultBestTickCount == 3

\* getRecommendedNumberOfTicksForXAxis with no tick for no width.
getRecommendedNumberOfTicksForXAxisOrNone(availableWidth) ==
    IF availableWidth <= 0 THEN 0
    ELSE IF availableWidth < 250 THEN 3
    ELSE IF availableWidth < 500 THEN 5
    ELSE 8

getRecommendedNumberOfTicksForXAxis(availableWidth) ==
    IF availableWidth < 250 THEN 3
    ELSE IF availableWidth < 500 THEN 5
    ELSE 8

getRecommendedNumberOfTicksForYAxis(availableWidth) ==
    IF availableWidth < 150 THEN 3
    ELSE IF availableWidth < 300 THEN 5
    ELSE 8

getMargin(availableWidth, availableHeight, xMargin, yMargin) ==
    IF getRecommendedNumberOfTicksForXAxis(availableWidth - xMargin) = 0
          \/ getRecommendedNumberOfTicksForYAxis(availableHeight - yMargin) = 0
    THEN [top |-> 0, right |-> xMargin, bottom |-> yMargin, left |-> 0]
    ELSE [top |-> 20, right |-> 30, bottom |-> 40, left |-> 30]

\* A metadata column is the record of its presence and its type.
NoColumn == [present |-> FALSE, type |-> NoType]

hasNonIntegerData(valuesMetadata) ==
    \E i \in 1..Len(valuesMetadata) :
        /\ valuesMetadata[i].present
        /\ valuesMetadata[i].type # NoType
        /\ ~valuesMetadata[i].type.integer

\* getBestNumberOfTicks without the early return for values between -1 and 1.
getBestNumberOfTicksNoUnitTest(min, max, valuesMetadata, maxTickCount, isDateTimeAxis) ==
    IF IsNaN(min) \/ IsNaN(max) THEN DefaultBestTickCount
    ELSE IF maxTickCount <= 1 THEN maxTickCount
    ELSE IF min = max
    THEN (IF isDateTimeAxis THEN 1 ELSE DefaultBestTickCount)
    ELSE IF hasNonIntegerData(valuesMetadata) THEN maxTickCount
    ELSE Min2((max - min) \div One + 1, maxTickCount)

\* max - min + 1 counts whole numbers: the domains of integer columns are
\* whole numbers.
getBestNumberOfTicks(min, max, valuesMetadata, maxTickCount, isDateTimeAxis) ==
    IF IsNaN(min) \/ IsNaN(max) THEN DefaultBestTickCount
    ELSE IF maxTickCount <= 1 \/ (max <= One /\ min >= 0 - One) THEN maxTickCount
    ELSE IF min = max
    THEN (IF isDateTimeAxis THEN 1 ELSE DefaultBestTickCount)
    ELSE IF hasNonIntegerData(valuesMetadata) THEN maxTickCount
    ELSE Min2((max - min) \div One + 1, maxTickCount)

columnDataTypeHasValue(dataType) ==
    dataType.bool \/ dataType.numeric \/ dataType.text \/ dataType.dateTime

getCategoryValueType(metadataColumn, isScalar) ==
    IF metadataColumn.present /\ columnDataTypeHasValue(metadataColumn.type)
    THEN metadataColumn.type
    ELSE IF isScalar
    THEN [NoType EXCEPT !.numeric = TRUE]
    ELSE [NoType EXCEPT !.text = TRUE]

isOrdinal(type) == type.text \/ type.bool

\* d3.scale.ordinal().rangeBands([0, pixelSpan], InnerPaddingRatio, ratio);
\* the outer padding ratio is kept as the fraction it is computed from.
createOrdinalScale(pixelSpan, dataDomain, outerPaddingRatio) ==
    [kind |-> "ordinal", domain |-> dataDomain, range |-> <<0, pixelSpan>>,
     padding |-> InnerPaddingRatio, outerPadding |-> outerPaddingRatio]

\* A dataDomain that is null or undefined.
NoDomain == <<Null>>

\* domain[i - 1] as a comparison reads it: an element past the end is
\* undefined and compares like NaN, a null element compares like 0.
ToNumberAt(domain, i) ==
    IF i > Len(domain) THEN NaN
    ELSE IF domain[i] = Null THEN 0
    ELSE domain[i]

\* isLogScalePossible without the test for a date-time axis.
isLogScalePossibleAnyType(domain, axisType) ==
    IF domain = NoDomain THEN FALSE
    ELSE \/ JsGreater(ToNumberAt(domain, 1), 0)
            /\ JsGreater(ToNumberAt(domain, 2), 0)
         \/ JsGreater(0, ToNumberAt(domain, 1))
            /\ JsGreater(0, ToNumberAt(domain, 2))

isLogScalePossible(domain, axisType) ==
    IF domain = NoDomain THEN FALSE
    ELSE IF isDateTime(axisType) THEN FALSE
    ELSE \/ JsGreater(ToNumberAt(domain, 1), 0)
            /\ JsGreater(ToNumberAt(domain, 2), 0)
         \/ JsGreater(0, ToNumberAt(domain, 1))
            /\ JsGreater(0, ToNumberAt(domain, 2))

\* niceCount = 0 stands for every falsy count (0, null, undefined).
createLogScale(pixelSpan, dataDomain, outerPadding, niceCount) ==
    [kind |-> "log",
     domain |-> IF niceCount # 0
                THEN d3LogNice(<<dataDomain[1], dataDomain[2]>>)
                ELSE <<dataDomain[1], dataDomain[2]>>,
     range |-> <<outerPadding, pixelSpan - outerPadding>>]

createLinearScale(pixelSpan, dataDomain, outerPadding, niceCount) ==
    [kind |-> "linear",
     domain |-> IF niceCount # 0
                THEN d3LinearNice(<<dataDomain[1], dataDomain[2]>>, niceCount)
                ELSE <<dataDomain[1], dataDomain[2]>>,
     range |-> <<outerPadding, pixelSpan - outerPadding>>]

createNumericalScale(axisScaleType, pixelSpan, dataDomain, dataType, outerPadding, niceCount) ==
    IF axisScaleType = "log" /\ isLogScalePossible(dataDomain, dataType)
    THEN createLogScale(pixelSpan, dataDomain, outerPadding, niceCount)
    ELSE createLinearScale(pixelSpan, dataDomain, outerPadding, niceCount)

Reverse(pair) == <<pair[2], pair[1]>>

\* The options of createAxis / createScale.  A missing dataDomain is
\* NoDomain, a missing forcedTickCount is Null, a missing categoryThickness
\* is 0.
IsDefaultDomain(dataDomain, isScalar) ==
    \/ dataDomain = NoDomain
    \/ (Len(dataDomain) = 2 /\ dataDomain[1] = Null /\ dataDomain[2] = Null)
    \/ (Len(dataDomain) # 2 /\ isScalar)

OuterPaddingRatio(options) ==
    IF options.categoryThickness # 0
    THEN <<options.outerPadding, options.categoryThickness>>
    ELSE <<0, 1>>

\* The scale of createScale before the reversal of a vertical scalar axis.
CreateScaleResult(options) ==
    LET pixelSpan == options.pixelSpan
        dataDomain == options.dataDomain
        outerPadding == options.outerPadding
        isScalar == options.isScalar
        dataType == getCategoryValueType(options.metaDataColumn, isScalar)
        maxTicks == IF options.isVertical
                    THEN getRecommendedNumberOfTicksForYAxis(pixelSpan)
                    ELSE getRecommendedNumberOfTicksForXAxis(pixelSpan)
    IN  IF IsDefaultDomain(dataDomain, isScalar)
        THEN LET defaultDomain == IF dataType.dateTime THEN fallbackDateDomain
                                  ELSE IF ~isOrdinal(dataType) THEN fallBackDomain
                                  ELSE <<>>
             IN  [scale |-> IF isOrdinal(dataType)
                            THEN createOrdinalScale(pixelSpan, defaultDomain,
                                                    OuterPaddingRatio(options))
                            ELSE createNumericalScale(options.scaleType,
                                     pixelSpan, defaultDomain, dataType,
                                     outerPadding, maxTicks),
                  bestTickCount |-> maxTicks,
                  usingDefaultDomain |-> TRUE]
        ELSE LET n == Len(dataDomain)
                 scalarTicks ==
                     IF options.forcedTickCount # Null
                     THEN (IF maxTicks # 0 THEN options.forcedTickCount ELSE 0)
                     ELSE getBestNumberOfTicks(dataDomain[1], dataDomain[n],
                              <<options.metaDataColumn>>, maxTicks,
                              dataType.dateTime)
                 normalizedRange ==
                     normalizeLinearDomain([min |-> dataDomain[1],
                                            max |-> dataDomain[n]])
                 scalarDomain ==
                     IF isScalar /\ n > 0
                     THEN <<normalizedRange.min, normalizedRange.max>>
                     ELSE dataDomain
                 bestTickCount ==
                     IF isScalar /\ n > 0 THEN scalarTicks ELSE maxTicks
             IN  IF isScalar /\ dataType.numeric /\ ~dataType.dateTime
                 THEN [scale |-> createNumericalScale(options.scaleType,
                                     pixelSpan, scalarDomain, dataType,
                                     outerPadding, bestTickCount),
                       bestTickCount |-> bestTickCount,
                       usingDefaultDomain |-> FALSE]
                 ELSE IF isScalar /\ dataType.dateTime
                 THEN [scale |-> createLinearScale(pixelSpan, scalarDomain,
                                                   outerPadding, 0),
                       bestTickCount |-> bestTickCount,
                       usingDefaultDomain |-> FALSE]
                 ELSE [scale |-> createOrdinalScale(pixelSpan, scalarDomain,
                                                    OuterPaddingRatio(options)),
                       bestTickCount |->
                           IF maxTicks = 0 THEN 0
                           ELSE Min2(Len(scalarDomain),
                                     (pixelSpan - outerPadding * 2)
                                         \div MinOrdinalRectThickness),
                       usingDefaultDomain |-> FALSE]

\* ColumnUtil.normalizeInfinityInScale: a non-finite bound of the scale is
\* replaced by the largest finite number of its sign.
Infinity == (2 ^ 30) + 8
MaxValue == Infinity - 1

normalizeInfinity(x) ==
    IF x = Infinity THEN MaxValue
    ELSE IF x = 0 - Infinity THEN 0 - MaxValue
    ELSE x

normalizeInfinityInScale(scale) ==
    IF scale.kind = "ordinal" THEN scale
    ELSE [scale EXCEPT !.domain = <<normalizeInfinity(scale.domain[1]),
                                    normalizeInfinity(scale.domain[2])>>,
                       !.range = <<normalizeInfinity(scale.range[1]),
                                   normalizeInfinity(scale.range[2])>>]

\* normalizeNonFiniteNumber that hands NaN back.
normalizeNonFiniteNumberKeepNaN(value) ==
    IF value = Infinity THEN MaxValue
    ELSE IF value = 0 - Infinity THEN 0 - MaxValue
    ELSE value

normalizeNonFiniteNumber(value) ==
    IF IsNaN(value) THEN Null
    ELSE IF value = Infinity THEN MaxValue
    ELSE IF value = 0 - Infinity THEN 0 - MaxValue
    ELSE value

createScale(options) ==
    LET result == CreateScaleResult(options)
        reversed == IF options.isVertical /\ options.isScalar
                    THEN [result.scale EXCEPT !.range = Reverse(result.scale.range)]
                    ELSE result.scale
    IN  [result EXCEPT !.scale = normalizeInfinityInScale(reversed)]

(***************************************************************************)
(* AxisHelper.createAxis and the formatting of its tick values.  The value *)
(* formatter and the callback getValueFn belong to the caller: a formatter *)
(* is the record of the options it is created with, and a formatted value  *)
(* is the record of the formatter, the value it is applied to, and whether *)
(* that value is given as it is or is the index that getValueFn looks up.  *)
(***************************************************************************)
\* valueFormatter.getFormatString(metaDataColumn, formatStringProp): the
\* format string of the column, a standard format.
getFormatString(metaDataColumn) ==
    IF metaDataColumn.present THEN "column" ELSE "undefined"

\* getMinTickValueInterval for a standard format string.
getMinTickValueInterval(formatString, columnType) ==
    IF columnType.integer THEN One ELSE 0

\* d / 10^ceil(log10(d)) === 1; the logarithm of a number that is not
\* positive is NaN or -Infinity and the test fails.
powerOfTen(d) == d > 0 /\ Pow10(Log10Floor(d, 0)) = d

getValueFn(index, type) == [index |-> index, type |-> type]

\* formatter.format(value)
Format(formatter, value) ==
    [formatter |-> formatter, value |-> value, lookedUp |-> FALSE]

\* formatter.format(getValueFn(index, dataType)); without a formatter, the
\* value that getValueFn returns.
FormatLookedUp(formatter, index) ==
    [formatter |-> formatter, value |-> index, lookedUp |-> TRUE]

NoFormatter == [kind |-> "none"]

\* DateTimeSequence.calculate(...).sequence for the domain of the scale: an
\* evenly spaced ascending sequence that starts at or before the domain.
DateTimeSequenceOf(scale, dateSequence) ==
    IF scale.kind = "linear"
    THEN [j \in 1..dateSequence.count |->
              scale.domain[1] + (j - 1 - dateSequence.before) * One]
    ELSE <<>>

createFormatter(scaleDomain, dataDomain, dataType, isScalar, formatString, bestTickCount, tickValues, hasGetValueFn, useTickIntervalForDisplayUnits) ==
    IF dataType.dateTime
    THEN IF isScalar
         THEN [kind |-> "create", format |-> formatString,
               value |-> IF bestTickCount = 1 THEN dataDomain[1]
                         ELSE scaleDomain[1],
               value2 |-> IF bestTickCount = 1 THEN dataDomain[1]
                          ELSE scaleDomain[2],
               tickCount |-> bestTickCount]
         ELSE [kind |-> "create", format |-> formatString,
               value |-> getValueFn(1, dataType),
               value2 |-> getValueFn(Len(scaleDomain), dataType),
               tickCount |-> bestTickCount]
    ELSE IF useTickIntervalForDisplayUnits /\ isScalar /\ Len(tickValues) > 1
    THEN [kind |-> "create", format |-> formatString,
          value |-> tickValues[2] - tickValues[1], value2 |-> 0,
          tickCount |-> Null]
    ELSE [kind |-> "createDefaultFormatter", format |-> formatString,
          value |-> Null, value2 |-> Null, tickCount |-> Null]

\* formatAxisTickValues without the look-up of the value by getValueFn.
formatAxisTickValuesNoLookup(tickValues, formatter, dataType, isScalar, hasGetValueFn) ==
    IF formatter # NoFormatter
    THEN [i \in 1..Len(tickValues) |-> Format(formatter, tickValues[i])]
    ELSE [i \in 1..Len(tickValues) |->
              FormatLookedUp(NoFormatter, tickValues[i])]

formatAxisTickValues(tickValues, formatter, dataType, isScalar, hasGetValueFn) ==
    IF formatter # NoFormatter
    THEN IF hasGetValueFn /\ ~(dataType.numeric /\ isScalar)
         THEN [i \in 1..Len(tickValues) |->
                   FormatLookedUp(formatter, tickValues[i])]
         ELSE [i \in 1..Len(tickValues) |-> Format(formatter, tickValues[i])]
    ELSE [i \in 1..Len(tickValues) |->
              FormatLookedUp(NoFormatter, tickValues[i])]

\* The tick values of createAxis before the filter of a log axis.
PrepareTickValues(options, dataType, scaleResult) ==
    IF options.isScalar /\ scaleResult.bestTickCount = 1
    THEN <<options.dataDomain[1]>>
    ELSE getRecommendedTickValues(scaleResult.bestTickCount, scaleResult.scale,
             dataType, options.isScalar,
             IF options.isScalar
             THEN getMinTickValueInterval(
                      getFormatString(options.metaDataColumn), dataType)
             ELSE 0,
             DateTimeSequenceOf(scaleResult.scale, options.dateSequence))

\* A log axis keeps the ticks that are powers of ten.
FilterLogTicks(options, isLogScaleAllowed, tickValues) ==
    IF options.scaleType = "log" /\ isLogScaleAllowed
    THEN SelectSeq(tickValues, powerOfTen)
    ELSE tickValues

\* The axis properties, once the scale, the ticks and the formatter are made.
AxisProperties(options, dataType, scaleResult, tickValues, formatter) ==
    [scale |-> scaleResult.scale,
     tickValues |-> tickValues,
     formatter |-> formatter,
     values |-> IF options.metaDataColumn.present
                THEN formatAxisTickValues(tickValues, formatter, dataType,
                                          options.isScalar, options.getValueFn)
                ELSE <<>>,
     axisType |-> dataType,
     usingDefaultDomain |-> scaleResult.usingDefaultDomain,
     isLogScaleAllowed |-> isLogScalePossible(options.dataDomain, dataType)]

CreateAxisWithTicks(options, dataType, scaleResult, tickValues) ==
    AxisProperties(options, dataType, scaleResult, tickValues,
        createFormatter(scaleResult.scale.domain, options.dataDomain, dataType,
            options.isScalar, getFormatString(options.metaDataColumn),
            scaleResult.bestTickCount, tickValues, options.getValueFn,
            options.useTickIntervalForDisplayUnits))

CreateAxisWithScale(options, dataType, scaleResult) ==
    CreateAxisWithTicks(options, dataType, scaleResult,
        FilterLogTicks(options, isLogScalePossible(options.dataDomain, dataType),
                       PrepareTickValues(options, dataType, scaleResult)))

createAxis(options) ==
    CreateAxisWithScale(options,
        getCategoryValueType(options.metaDataColumn, options.isScalar),
        createScale(options))

(***************************************************************************)
(* AxisHelper.LabelLayoutStrategy.willLabelsFit.  The text measurer is an  *)
(* argument: a function from the length of a label to its width.  An       *)
(* undefined xLabelMaxWidth is Null.                                       *)
(***************************************************************************)
\* width > labelMaxWidth, where labelMaxWidth is xLabelMaxWidth when it is
\* defined and the quotient availableWidth / labelCount otherwise.
ExceedsLabelMaxWidth(width, xLabelMaxWidth, availableWidth, labelCount) ==
    IF xLabelMaxWidth # Null
    THEN width > xLabelMaxWidth
    ELSE width * labelCount > availableWidth

\* labels.some(d => textMeasurer(d) > labelMaxWidth)
SomeLabelExceeds(labels, xLabelMaxWidth, availableWidth, textMeasurer) ==
    \E i \in 1..Len(labels) :
        ExceedsLabelMaxWidth(measureSvgTextWidth(textMeasurer, labels[i]),
                             xLabelMaxWidth, availableWidth, Len(labels))

\* willLabelsFit without the early return for an axis without labels.
willLabelsFitNoEmptyTest(axisProperties, availableWidth, textMeasurer) ==
    ~SomeLabelExceeds(axisProperties.values, axisProperties.xLabelMaxWidth,
                      availableWidth, textMeasurer)

willLabelsFit(axisProperties, availableWidth, textMeasurer) ==
    IF Len(axisProperties.values) = 0
    THEN FALSE
    ELSE ~SomeLabelExceeds(axisProperties.values,
                           axisProperties.xLabelMaxWidth, availableWidth,
                           textMeasurer)

(***************************************************************************)
(* AxisHelper.LabelLayoutStrategy.willLabelsWordBreak.                     *)
(***************************************************************************)
\* jsCommon.WordBreaker.hasBreakers: the label has a break opportunity, a
\* white space.
hasBreakers(label) == \E i \in 1..Len(label) : label[i] = " "

\* labels.some(label => !hasBreakers(label) && width > labelMaxWidth)
SomeLabelCannotBreak(labels, xLabelMaxWidth, availableWidth, textWidthMeasurer) ==
    \E i \in 1..Len(labels) :
        /\ ~hasBreakers(labels[i])
        /\ ExceedsLabelMaxWidth(
               measureSvgTextWidth(textWidthMeasurer, labels[i]),
               xLabelMaxWidth, availableWidth, Len(labels))

\* willLabelsWordBreak without the test for a break opportunity.
willLabelsWordBreakNoBreakers(axisProperties, availableWidth, textWidthMeasurer) ==
    IF Len(axisProperties.values) = 0
    THEN FALSE
    ELSE ~SomeLabelExceeds(axisProperties.values,
                           axisProperties.xLabelMaxWidth, availableWidth,
                           textWidthMeasurer)

willLabelsWordBreak(axisProperties, availableWidth, textWidthMeasurer) ==
    IF Len(axisProperties.values) = 0
    THEN FALSE
    ELSE ~SomeLabelCannotBreak(axisProperties.values,
                               axisProperties.xLabelMaxWidth, availableWidth,
                               textWidthMeasurer)

(***************************************************************************)
(* The text of the TextProperties argument after a call.  willLabelsFit    *)
(* and willLabelsWordBreak assign each label they test to properties.text. *)
(***************************************************************************)
RECURSIVE FirstIndex(_, _, _)
\* The index at which labels.some(test) stops: the first label for which
\* stops[i] holds, the last label when there is none; i is the running index.
FirstIndex(stops, n, i) ==
    IF i >= n \/ stops[i] THEN i ELSE FirstIndex(stops, n, i + 1)

\* properties.text after willLabelsFit.
willLabelsFitPropertiesText(axisProperties, availableWidth, textMeasurer, propertiesText) ==
    IF Len(axisProperties.values) = 0
    THEN propertiesText
    ELSE axisProperties.values[
             FirstIndex([i \in 1..Len(axisProperties.values) |->
                            ExceedsLabelMaxWidth(
                                measureSvgTextWidth(textMeasurer,
                                                    axisProperties.values[i]),
                                axisProperties.xLabelMaxWidth, availableWidth,
                                Len(axisProperties.values))],
                        Len(axisProperties.values), 1)]

\* properties.text after willLabelsWordBreak.
willLabelsWordBreakPropertiesText(axisProperties, availableWidth, textMeasurer, propertiesText) ==
    IF Len(axisProperties.values) = 0
    THEN propertiesText
    ELSE axisProperties.values[
             FirstIndex([i \in 1..Len(axisProperties.values) |->
                            /\ ~hasBreakers(axisProperties.values[i])
                            /\ ExceedsLabelMaxWidth(
                                   measureSvgTextWidth(textMeasurer,
                                       axisProperties.values[i]),
                                   axisProperties.xLabelMaxWidth,
                                   availableWidth, Len(axisProperties.values))],
                        Len(axisProperties.values), 1)]

(***************************************************************************)
(* AxisHelper.getTickLabelMargins.  Lengths are counted in hundredths of a *)
(* pixel.  The measurers are arguments: textWidthMeasurer is a function    *)
(* from the length of a label to its width, textHeight is the height that  *)
(* textHeightMeasurer returns, and lines is the number of lines that       *)
(* WordBreaker.splitByWidth returns for a label.                           *)
(***************************************************************************)
PixelUnit == 100
XLabelMaxAllowedOverflow == 25
TextHeightConstant == 10

Max2(a, b) == IF a > b THEN a ELSE b

\* Math.ceil of a length.
CeilPixel(x) == CeilTo(x, PixelUnit)

\* LabelLayoutStrategy.DefaultRotation (35 degrees) and
\* DefaultRotationWithScrollbar (90 degrees), in ten-thousandths.
RotationOf(scrollbarVisible) ==
    IF scrollbarVisible THEN [sine |-> 10000, cosine |-> 0]
    ELSE [sine |-> 5736, cosine |-> 8192]

\* The largest width of the labels, 0 for no labels.
MaxLabelWidth(labels, textWidthMeasurer) ==
    LET widths == {measureSvgTextWidth(textWidthMeasurer, labels[i]) :
                       i \in 1..Len(labels)} \cup {0}
    IN  CHOOSE m \in widths : \A n \in widths : n <= m

\* The height that label i of the x axis takes.
XLabelHeight(x, width, rotation, textHeight, lines) ==
    IF x.willLabelsWordBreak /\ isOrdinal(x.axisType)
    THEN lines * textHeight
    ELSE IF ~x.willLabelsFit
    THEN (width * rotation.sine) \div 10000
    ELSE TextHeightConstant * PixelUnit

\* The width of label i of the x axis after the rotation.
XLabelWidth(x, width, rotation) ==
    IF x.willLabelsWordBreak /\ isOrdinal(x.axisType)
    THEN width
    ELSE IF ~x.willLabelsFit
    THEN (width * rotation.cosine) \div 10000
    ELSE width

xLabelOuterPaddingOf(x, viewport) ==
    IF x.outerPadding # Null THEN x.outerPadding
    ELSE IF x.xLabelMaxWidth # Null
    THEN Max2(0, (viewport.width - x.xLabelMaxWidth * Len(x.values)) \div 2)
    ELSE 0

labelOffsetOf(x) ==
    IF x.categoryThickness # 0 THEN x.categoryThickness \div 2 ELSE 0

\* The overflow of the first label to the left.
LeftOverflowOf(x, width, viewport) ==
    IF ~x.willLabelsFit
    THEN width - labelOffsetOf(x) - xLabelOuterPaddingOf(x, viewport)
    ELSE width \div 2 - labelOffsetOf(x) - xLabelOuterPaddingOf(x, viewport)

\* The overflow to the right: of the last label when it is not the first
\* one and the labels fit.
RightOverflowOf(x, width, viewport) ==
    IF Len(x.values) > 1 /\ x.willLabelsFit
    THEN Max2(0, width \div 2 - labelOffsetOf(x)
                     - xLabelOuterPaddingOf(x, viewport))
    ELSE 0

\* The heights of the labels of the x axis, with 0.
XLabelHeights(x, textWidthMeasurer, rotation, textHeight, lines) ==
    {XLabelHeight(x, measureSvgTextWidth(textWidthMeasurer, x.values[i]),
                  rotation, textHeight, lines) : i \in 1..Len(x.values)}
    \cup {0}

\* leftOverflow, rightOverflow and xMax after the loop over the labels of
\* the x axis; all are 0 when the x axis is not rendered or has no label.
XAxisOverflow(x, viewport, textWidthMeasurer, rotation, textHeight, lines, renderXAxis) ==
    IF renderXAxis /\ Len(x.values) > 0
          /\ (getRecommendedNumberOfTicksForXAxis(viewport.width) # 0
                 \/ getRecommendedNumberOfTicksForYAxis(viewport.height) # 0)
    THEN [leftOverflow |->
              Min2(Max2(0, LeftOverflowOf(x,
                               XLabelWidth(x, measureSvgTextWidth(
                                   textWidthMeasurer, x.values[1]), rotation),
                               viewport)),
                   XLabelMaxAllowedOverflow * PixelUnit),
          rightOverflow |->
              Min2(RightOverflowOf(x,
                       XLabelWidth(x, measureSvgTextWidth(textWidthMeasurer,
                                          x.values[Len(x.values)]), rotation),
                       viewport),
                   XLabelMaxAllowedOverflow * PixelUnit),
          xMax |-> CHOOSE m \in XLabelHeights(x, textWidthMeasurer, rotation,
                                              textHeight, lines) :
                       \A n \in XLabelHeights(x, textWidthMeasurer, rotation,
                                               textHeight, lines) : n <= m]
    ELSE [leftOverflow |-> 0, rightOverflow |-> 0, xMax |-> 0]

\* The widest label of a rendered y axis.
MaxWidthY(axis, render, viewport, textWidthMeasurer) ==
    IF render /\ axis.present
          /\ (getRecommendedNumberOfTicksForXAxis(viewport.width) # 0
                 \/ getRecommendedNumberOfTicksForYAxis(viewport.height) # 0)
    THEN MaxLabelWidth(axis.values, textWidthMeasurer)
    ELSE 0

\* The margins from the overflows and the widest labels.
TickLabelMargins(overflow, maxWidthY1, maxWidthY2, yMarginLimit, bottomMarginLimit, showOnRight) ==
    [xMax |-> CeilPixel(Min2(CeilPixel(overflow.xMax), bottomMarginLimit)),
     yLeft |-> CeilPixel(Min2(Max2(overflow.leftOverflow,
                                   IF showOnRight THEN maxWidthY2
                                                  ELSE maxWidthY1),
                              yMarginLimit)),
     yRight |-> CeilPixel(Min2(Max2(overflow.rightOverflow,
                                    IF showOnRight THEN maxWidthY1
                                                   ELSE maxWidthY2),
                               yMarginLimit))]

getTickLabelMargins(viewport, yMarginLimit, textWidthMeasurer, textHeight, lines, axes, bottomMarginLimit, scrollbarVisible, showOnRight, renderXAxis, renderY1Axis, renderY2Axis) ==
    TickLabelMargins(
        XAxisOverflow(axes.x, viewport, textWidthMeasurer,
                      RotationOf(scrollbarVisible), textHeight, lines,
                      renderXAxis),
        MaxWidthY(axes.y1, renderY1Axis, viewport, textWidthMeasurer),
        MaxWidthY(axes.y2, renderY2Axis, viewport, textWidthMeasurer),
        yMarginLimit, bottomMarginLimit, showOnRight)

(***************************************************************************)
(* The calls.                                                              *)
(***************************************************************************)
\* A call is made by an idle caller; Return hands the result back.
(***************************************************************************)
(* estimateSvgTextHeight and the storage it caches in.  A font family and  *)
(* a font size are strings (sequences of characters); storage maps a key   *)
(* to the height kept under it, Null while nothing is kept.  stored is the *)
(* history of the calls: for each (fontFamily, fontSize) pair the height   *)
(* that a call with that pair last measured and stored.                    *)
(***************************************************************************)
FontFamilies == {<<"A">>, <<"A", "1">>}

FontSizes == {<<"1", "p", "x">>, <<"1", "1", "p", "x">>}

FontPairs == FontFamilies \X FontSizes

\* textProperties.fontFamily + textProperties.fontSize
propertiesKeyOf(fontFamily, fontSize) == fontFamily \o fontSize

PropertiesKeys == {propertiesKeyOf(pair[1], pair[2]) : pair \in FontPairs}

\* Heights, in pixels, that measuring "M" can give.
MeasuredHeights == {0, 12, 15}

\* ephemeralStorageService.getData(key): undefined until setData(key, ...).
getData(key) == storage[key]

\* ephemeralStorageService.setData(key, data)
setData(key, data) == [storage EXCEPT ![key] = data]

\* if (height): undefined and 0 are both falsy.
Truthy(height) == height # Null /\ height # 0

\* estimateSvgTextHeight(textProperties); measuredHeight is what
\* measureSvgTextHeight gives for "M" in that font at the time of the call.
estimateSvgTextHeight(fontFamily, fontSize, measuredHeight) ==
    LET propertiesKey == propertiesKeyOf(fontFamily, fontSize)
        height == getData(propertiesKey)
    IN  IF Truthy(height)
        THEN [height |-> height, measured |-> FALSE, storage |-> storage]
        ELSE [height |-> measuredHeight, measured |-> TRUE,
              storage |-> setData(propertiesKey, measuredHeight)]

(***************************************************************************)
(* FunnelChart: the fields that update, onDataChanged and onResizing read  *)
(* and write, and setUpAxis.  Lengths are whole pixels.  A dataViews value *)
(* is a sequence of data views, or NoDataViews for undefined; a data view  *)
(* says whether it is categorical and carries the labels of its slices.    *)
(***************************************************************************)
PercentBarToBarRatio == 2
MaxBarWidth == 40
MinBarThickness == 12
LabelFunnelPadding == 6

\* The width in pixels that measureSvgTextWidth gives per character.
CharPixels == 7

ChartIds == 1..2

NoDataViews == <<[undefined |-> TRUE]>>

NoAxisOptions == [undefined |-> TRUE]

NoSmallViewPort == [present |-> FALSE, hideFunnelCategoryLabelsOnSmallViewPort |-> FALSE, minHeightFunnelCategoryLabelsVisible |-> 0]

SmallViewPortProperties ==
    {NoSmallViewPort,
     [present |-> TRUE, hideFunnelCategoryLabelsOnSmallViewPort |-> TRUE,
      minHeightFunnelCategoryLabelsVisible |-> 100]}

\* The data that update starts from.
EmptyFunnelData == [categoryLabels |-> <<>>, canShowDataLabels |-> TRUE]

\* FunnelChart.converter(dataView, ...): one category label per slice.
converter(dataView) ==
    [categoryLabels |-> dataView.labels, canShowDataLabels |-> TRUE]

\* new FunnelChart(options) followed by init(options).
init(funnelSmallViewPortProperties, viewport) ==
    [funnelSmallViewPortProperties |-> funnelSmallViewPortProperties,
     currentViewport |-> viewport,
     margin |-> [left |-> 5, right |-> 5, top |-> 0, bottom |-> 0],
     dataViews |-> NoDataViews,
     data |-> EmptyFunnelData,
     axisOptions |-> NoAxisOptions,
     lastUpdate |-> NoAxisOptions]

RECURSIVE MaxLabelPixels(_, _)
\* The loop of getMaxLeftMargin over the first n labels.
MaxLabelPixels(labels, n) ==
    IF n = 0
    THEN 0
    ELSE Max2(MaxLabelPixels(labels, n - 1), CharPixels * Len(labels[n]))

getMaxLeftMargin(labels) ==
    MaxLabelPixels(labels, Len(labels)) + LabelFunnelPadding

getUsableVerticalSpace(chart) ==
    (chart.currentViewport.height - (chart.margin.top + chart.margin.bottom))
        - (MinBarThickness * Len(chart.data.categoryLabels))

isHidingPercentBars(chart) ==
    getUsableVerticalSpace(chart)
        - (2 * MinBarThickness * PercentBarToBarRatio) <= 0

isSparklines(chart) == getUsableVerticalSpace(chart) <= 0

showCategoryLabels(chart) ==
    ~(/\ chart.funnelSmallViewPortProperties.present
      /\ chart.funnelSmallViewPortProperties.hideFunnelCategoryLabelsOnSmallViewPort
      /\ chart.currentViewport.height < chart.funnelSmallViewPortProperties.minHeightFunnelCategoryLabelsVisible)

\* The first branch of setUpAxis that applies.
LabelBranch(chart) ==
    IF Len(chart.data.categoryLabels) > 0 /\ isSparklines(chart)
    THEN "sparklines"
    ELSE IF showCategoryLabels(chart) THEN "labels" ELSE "hidden"

\* The category labels of the axis options.
AxisCategoryLabels(chart) ==
    IF LabelBranch(chart) = "labels" THEN chart.data.categoryLabels ELSE <<>>

\* this.margin when setUpAxis returns: margin.left is assigned in one branch.
MarginAfterSetUp(chart) ==
    IF LabelBranch(chart) = "labels"
    THEN [chart.margin EXCEPT !.left = getMaxLeftMargin(chart.data.categoryLabels)]
    ELSE chart.margin

DataAfterSetUp(chart) ==
    IF LabelBranch(chart) = "sparklines"
    THEN [chart.data EXCEPT !.canShowDataLabels = FALSE]
    ELSE chart.data

horizontalRangeOf(chart) ==
    chart.currentViewport.height - (chart.margin.top + chart.margin.bottom)

deltaOf(chart) ==
    IF isHidingPercentBars(chart)
    THEN horizontalRangeOf(chart) - (Len(AxisCategoryLabels(chart)) * MaxBarWidth)
    ELSE (horizontalRangeOf(chart) - (Len(AxisCategoryLabels(chart)) * MaxBarWidth))
             - (2 * MaxBarWidth * PercentBarToBarRatio)

\* if (categoryLabels.length > 0 && delta > 0): the range is centred.
Centred(chart) == Len(AxisCategoryLabels(chart)) > 0 /\ deltaOf(chart) > 0

\* The FunnelAxisOptions that setUpAxis returns (the two d3 scales left out).
setUpAxis(chart) ==
    [margin |-> MarginAfterSetUp(chart),
     verticalRange |-> chart.currentViewport.width
         - (MarginAfterSetUp(chart).left + MarginAfterSetUp(chart).right),
     rangeStart |-> IF Centred(chart) THEN (deltaOf(chart) + 1) \div 2 ELSE 0,
     rangeEnd |-> IF Centred(chart)
                  THEN horizontalRangeOf(chart) - (deltaOf(chart) \div 2)
                  ELSE horizontalRangeOf(chart),
     categoryLabels |-> AxisCategoryLabels(chart)]

\* updateInternal: setUpAxis and what it leaves in the chart.
updateInternal(chart, options) ==
    [chart EXCEPT !.margin = MarginAfterSetUp(chart),
                  !.data = DataAfterSetUp(chart),
                  !.axisOptions = setUpAxis(chart),
                  !.lastUpdate = options]

\* this.data once update has read the data views.
DataOf(dataViews) ==
    IF dataViews # NoDataViews /\ Len(dataViews) > 0 /\ dataViews[1].categorical
    THEN converter(dataViews[1])
    ELSE EmptyFunnelData

\* update(options)
update(chart, options) ==
    updateInternal([chart EXCEPT !.data = DataOf(options.dataViews),
                                 !.dataViews = options.dataViews,
                                 !.currentViewport = options.viewport],
                   options)

\* onDataChanged(options)
onDataChanged(chart, dataViews) ==
    update(chart, [dataViews |-> dataViews, viewport |-> chart.currentViewport])

\* onResizing(viewport)
onResizing(chart, viewport) ==
    update([chart EXCEPT !.currentViewport = viewport],
           [dataViews |-> chart.dataViews, viewport |-> viewport])

\* The viewports and data views of the calls.
InitViewport == [width |-> 300, height |-> 200]

Viewports ==
    {[width |-> 300, height |-> 200], [width |-> 300, height |-> 60],
     [width |-> 300, height |-> 20]}

DataViewsOf(labels) == <<[categorical |-> TRUE, labels |-> labels]>>

ChartDataViews ==
    {NoDataViews, <<>>, <<[categorical |-> FALSE, labels |-> <<>>]>>,
     DataViewsOf(<<>>), DataViewsOf(<<<<"a">>>>),
     DataViewsOf(<<<<"a", "b", "c">>, <<"a", "b">>>>)}

Idle == op = "idle"

\* A call of one of the functions that keep nothing between calls.
Call(o, a, r) ==
    /\ op' = o
    /\ args' = a
    /\ ret' = r
    /\ UNCHANGED <<storage, stored, charts>>

Init ==
    /\ op = "idle"
    /\ args = <<>>
    /\ ret = <<>>
    /\ storage = [key \in PropertiesKeys |-> Null]
    /\ stored = [pair \in FontPairs |-> Null]
    /\ \E properties \in SmallViewPortProperties :
          charts = [c \in ChartIds |-> init(properties, InitViewport)]

Return ==
    /\ op # "idle"
    /\ op' = "idle"
    /\ args' = <<>>
    /\ ret' = <<>>
    /\ UNCHANGED <<storage, stored, charts>>

\* normalizeLinearDomain({min, max}), and the same call on its own result.
NormalizeLinearDomain ==
    /\ Idle
    /\ \E mn \in NumbersOrNaN, mx \in NumbersOrNaN :
           /\ (IsNaN(mn) \/ IsNaN(mx) \/ mn <= mx)
           /\ LET d == [min |-> mn, max |-> mx]
                  once == normalizeLinearDomain(d)
              IN  Call("normalizeLinearDomain", d,
                       [once |-> once, twice |-> normalizeLinearDomain(once)])

DomainBounds == {k * One : k \in (0 - MaxBound)..MaxBound}

\* combineDomain(forcedDomain, domain) with a two-element forced domain.
CombineDomain ==
    /\ Idle
    /\ \E f0 \in DomainBounds \cup {Null}, f1 \in DomainBounds \cup {Null},
          d0 \in DomainBounds, d1 \in DomainBounds :
           Call("combineDomain", [forced |-> <<f0, f1>>, domain |-> <<d0, d1>>],
                combineDomain(<<f0, f1>>, <<d0, d1>>))

\* The labels of an ordinal axis are told apart by their position.
Labels(n) == [i \in 1..n |-> i]

OrdinalRange ==
    /\ Idle
    /\ \E maxTicks \in 0..MaxTicksBound, n \in 0..MaxLabels :
           Call("getRecommendedTickValuesForAnOrdinalRange",
                [maxTicks |-> maxTicks, labels |-> Labels(n)],
                getRecommendedTickValuesForAnOrdinalRange(maxTicks, Labels(n)))

RECURSIVE TailorScan(_, _, _, _, _, _, _)
\* A search that tries the lengths one after the other from min upwards.
TailorScan(measurer, text, maxWidth, min, max, i, iterations) ==
    IF min <= max
    THEN LET width == measureSvgTextWidth(measurer, Substr(text, 0, min))
         IN  IF maxWidth > width
             THEN TailorScan(measurer, text, maxWidth, min + 1, max, min,
                             iterations + 1)
             ELSE [i |-> min, min |-> min, max |-> max,
                   iterations |-> iterations + 1]
    ELSE [i |-> i, min |-> min, max |-> max, iterations |-> iterations]

\* What a call under any measurer gives once the loop has selected found.i;
\* widthOfLast is the width measured after the loop.
TailoredOf(text, found, widthOfLast, maxWidth) ==
    [text |-> Substr(text, 3, (IF widthOfLast > maxWidth THEN found.i - 1 ELSE found.i) - 3) \o dotsString,
     propertiesText |-> Substr(text, 0, found.i),
     iterations |-> found.iterations,
     searched |-> TRUE,
     n |-> Len(text),
     i |-> IF widthOfLast > maxWidth THEN found.i - 1 ELSE found.i]

\* The call returns properties.text as it is: the search does not run.
UntailoredOf(propertiesText) ==
    [text |-> propertiesText, propertiesText |-> propertiesText,
     iterations |-> 0, searched |-> FALSE, n |-> Len(propertiesText) + 3,
     i |-> 3]

getTailoredTextOrDefaultByScan(widthOfText, measurer, widthOfLast, propertiesText, maxWidth) ==
    IF Len(propertiesText) = 0 \/ widthOfText < maxWidth
    THEN UntailoredOf(propertiesText)
    ELSE TailoredOf(dotsString \o propertiesText,
                    TailorScan(measurer, dotsString \o propertiesText,
                               maxWidth, 1, Len(propertiesText) + 3, 3, 0),
                    widthOfLast, maxWidth)

\* getTailoredTextOrDefault under a measurer that need not give the same
\* width twice nor grow with the text: widthOfText is what it gives for
\* properties.text before the loop, measurer[k] what it gives inside the
\* loop for the first k characters, widthOfLast what it gives after the loop.
getTailoredTextOrDefaultAnyMeasurer(widthOfText, measurer, widthOfLast, propertiesText, maxWidth) ==
    IF Len(propertiesText) = 0 \/ widthOfText < maxWidth
    THEN UntailoredOf(propertiesText)
    ELSE TailoredOf(dotsString \o propertiesText,
                    TailorSearch(measurer, dotsString \o propertiesText,
                                 maxWidth, 1, Len(propertiesText) + 3, 3, 0),
                    widthOfLast, maxWidth)

RECURSIVE FloorLog2(_)
\* floor(log2(n)) for n >= 1.
FloorLog2(n) == IF n <= 1 THEN 0 ELSE 1 + FloorLog2(n \div 2)

\* Text measurers whose result is non-decreasing in the length of the string.
MonotonicMeasurers(n) ==
    {m \in [1..n -> 1..MaxWidth] : \A k \in 1..(n - 1) : m[k] <= m[k + 1]}

\* getTailoredTextOrDefault(properties, maxWidth) under a monotonic measurer.
GetTailoredTextOrDefault ==
    /\ Idle
    /\ \E n \in 0..MaxTextLen, maxWidth \in 0..(MaxWidth + 1),
          measurer \in MonotonicMeasurers(MaxTextLen + 3) :
           Call("getTailoredTextOrDefault",
                [text |-> SubSeq(SampleText, 1, n), maxWidth |-> maxWidth,
                 measurer |-> measurer],
                getTailoredTextOrDefault(measurer, SubSeq(SampleText, 1, n),
                                         maxWidth))

\* The widths a measurer charges per character, and the widest maxWidth.
CharWidths == {1, 3, 10}
MaxAvailableWidth == 60

\* getTailoredTextOrDefault under a measurer that charges w per character.
GetTailoredTextPerCharacter ==
    /\ Idle
    /\ \E n \in 0..Len(SampleText), maxWidth \in 0..MaxAvailableWidth,
          w \in CharWidths :
           LET measurer == [k \in 1..(Len(SampleText) + 3) |-> k * w]
           IN  Call("getTailoredTextOrDefault",
                    [text |-> SubSeq(SampleText, 1, n), maxWidth |-> maxWidth,
                     measurer |-> measurer],
                    getTailoredTextOrDefault(measurer, SubSeq(SampleText, 1, n),
                                             maxWidth))

\* The width the search aims at, and the widths around it.
SearchWidth == 2
SearchWidths == {SearchWidth - 1, SearchWidth, SearchWidth + 1}

\* getTailoredTextOrDefault under any measurer, monotonic or not, that may
\* answer differently each time it is asked.
GetTailoredTextAnyMeasurer ==
    /\ Idle
    /\ \E n \in 0..MaxSearchLen,
          widthOfText \in {SearchWidth - 1, SearchWidth + 1},
          widthOfLast \in {SearchWidth, SearchWidth + 1} :
          \E measurer \in [1..(n + 3) -> SearchWidths] :
           Call("getTailoredTextAnyMeasurer",
                [text |-> SubSeq(SampleText, 1, n), maxWidth |-> SearchWidth,
                 widthOfText |-> widthOfText, measurer |-> measurer,
                 widthOfLast |-> widthOfLast],
                getTailoredTextOrDefaultAnyMeasurer(widthOfText, measurer,
                    widthOfLast, SubSeq(SampleText, 1, n), SearchWidth))

\* The value types of an axis: text (ordinal), numeric and date-time.
ValueTypes ==
    {[text |-> t, numeric |-> n, dateTime |-> d, bool |-> FALSE,
      integer |-> FALSE] :
        <<t, n, d>> \in {<<TRUE, FALSE, FALSE>>, <<FALSE, TRUE, FALSE>>,
                         <<FALSE, FALSE, TRUE>>}}

\* The scales handed to getRecommendedTickValues: an ordinal scale over n
\* labels, or a linear scale over an ascending domain.
TickScales ==
    {[kind |-> "ordinal", domain |-> Labels(n)] : n \in 0..MaxLabels}
    \cup {[kind |-> "linear", domain |-> d] :
              d \in {e \in DomainBounds \X DomainBounds : e[1] < e[2]}}

\* dateSequence is what DateTimeSequence.calculate returns: an evenly spaced
\* ascending sequence of c timestamps that starts at or before the domain.
GetRecommendedTickValues ==
    /\ Idle
    /\ \E maxTicks \in 1..MaxTicksBound, scale \in TickScales,
          axisType \in ValueTypes, isScalar \in BOOLEAN,
          minTickInterval \in {0, One}, c \in 0..MaxGenerated, before \in 0..1 :
           LET dateSequence ==
                   IF scale.kind = "linear"
                   THEN [j \in 1..c |-> scale.domain[1] + (j - 1 - before) * One]
                   ELSE <<>>
           IN  /\ scale.kind = "ordinal" => (c = 0 /\ before = 0)
               /\ ~(scale.kind = "linear" /\ isScalar /\ axisType.dateTime)
                      => (c = 0 /\ before = 0)
               /\ ~(scale.kind = "linear" /\ isScalar /\ axisType.numeric)
                      => minTickInterval = 0
               /\ Call("getRecommendedTickValues",
                       [maxTicks |-> maxTicks, scale |-> scale,
                        axisType |-> axisType, isScalar |-> isScalar,
                        minTickInterval |-> minTickInterval,
                        dateSequence |-> dateSequence],
                       getRecommendedTickValues(maxTicks, scale, axisType,
                           isScalar, minTickInterval, dateSequence))

\* A call of normalizeNonFiniteNumber on a finite or non-finite number.
NormalizeNonFiniteNumber ==
    /\ Idle
    /\ \E value \in NumbersOrNaN
                    \cup {Infinity, 0 - Infinity, MaxValue, 0 - MaxValue} :
           Call("normalizeNonFiniteNumber", value,
                normalizeNonFiniteNumber(value))

\* The minimum tick intervals: none, and fractions and multiples of 1.
MinIntervals == {0, (3 * One) \div 10, One, 3 * One}

\* A call of getRecommendedTickValuesForAQuantitativeRange on a linear scale.
\* The result is kept with the calls made to scale.ticks on the way.
QuantitativeRange ==
    /\ Idle
    /\ \E maxTicks \in 0..MaxTicksBound, minInterval \in MinIntervals,
          d \in {e \in DomainBounds \X DomainBounds : e[1] <= e[2]} :
           LET scale == [kind |-> "linear", domain |-> d]
               made == IF maxTicks = 0
                       THEN [calls |-> <<>>, generated |-> <<>>]
                       ELSE QuantitativeTickCalls(maxTicks, scale)
           IN  Call("getRecommendedTickValuesForAQuantitativeRange",
                    [maxTicks |-> maxTicks, scale |-> scale,
                     minInterval |-> minInterval],
                    [ticks |-> getRecommendedTickValuesForAQuantitativeRange(
                                   maxTicks, scale, minInterval),
                     calls |-> made.calls, generated |-> made.generated])

\* The column types of the axis: none, text, numeric, whole numbers, dates.
MetaDataColumns ==
    {NoColumn,
     [present |-> TRUE, type |-> [NoType EXCEPT !.text = TRUE]],
     [present |-> TRUE, type |-> [NoType EXCEPT !.numeric = TRUE]],
     [present |-> TRUE,
      type |-> [NoType EXCEPT !.numeric = TRUE, !.integer = TRUE]],
     [present |-> TRUE, type |-> [NoType EXCEPT !.dateTime = TRUE]]}

ScaleBounds ==
    {NaN} \cup {40 * k : k \in -2..2}
          \cup {k * One : k \in (0 - MaxBound)..MaxBound}

\* The data domains of a scalar axis: none, a pair of missing bounds, or an
\* ascending pair of numbers of which some may be NaN.
ScalarDomains ==
    {NoDomain, <<Null, Null>>}
    \cup {d \in ScaleBounds \X ScaleBounds :
              IsNaN(d[1]) \/ IsNaN(d[2]) \/ d[1] <= d[2]}

IsWhole(x) == IsNaN(x) \/ x % One = 0

\* The measure metadata handed to getBestNumberOfTicks: up to two columns.
ColumnLists ==
    {<<>>} \cup {<<c>> : c \in MetaDataColumns}
           \cup {<<c, NoColumn>> : c \in MetaDataColumns}
           \cup {<<[present |-> TRUE,
                    type |-> [NoType EXCEPT !.numeric = TRUE, !.integer = TRUE]],
                   c>> : c \in MetaDataColumns}

\* A call of getBestNumberOfTicks with min <= max.  A domain of columns
\* without non-integer data has whole-number bounds.
GetBestNumberOfTicks ==
    /\ Idle
    /\ \E min \in Numbers, max \in Numbers, valuesMetadata \in ColumnLists,
          maxTickCount \in 0..MaxTicksBound, isDateTimeAxis \in BOOLEAN :
           /\ min <= max
           /\ hasNonIntegerData(valuesMetadata) \/ (IsWhole(min) /\ IsWhole(max))
           /\ Call("getBestNumberOfTicks",
                   [min |-> min, max |-> max, valuesMetadata |-> valuesMetadata,
                    maxTickCount |-> maxTickCount,
                    isDateTime |-> isDateTimeAxis],
                   getBestNumberOfTicks(min, max, valuesMetadata, maxTickCount,
                                        isDateTimeAxis))

PixelSpans == {0, 20, 200, 260, 400, 600}

CreateScale ==
    /\ Idle
    /\ \E dataDomain \in ScalarDomains, metaDataColumn \in MetaDataColumns,
          pixelSpan \in PixelSpans, outerPadding \in {0, 10},
          isVertical \in BOOLEAN, scaleType \in {"linear", "log"},
          forcedTickCount \in {Null, 0, 2} :
           /\ metaDataColumn.type.numeric \/ metaDataColumn.type.dateTime
           /\ (metaDataColumn.type.integer /\ dataDomain # NoDomain
                   /\ dataDomain # <<Null, Null>>)
                  => (IsWhole(dataDomain[1]) /\ IsWhole(dataDomain[2]))
           /\ LET options == [pixelSpan |-> pixelSpan, dataDomain |-> dataDomain,
                              metaDataColumn |-> metaDataColumn,
                              outerPadding |-> outerPadding, isScalar |-> TRUE,
                              isVertical |-> isVertical,
                              forcedTickCount |-> forcedTickCount,
                              categoryThickness |-> 0, scaleType |-> scaleType]
              IN  Call("createScale", options, createScale(options))

\* createScale for a categorical axis: the domain is the list of categories.
CreateOrdinalScale ==
    /\ Idle
    /\ \E n \in 0..MaxLabels, metaDataColumn \in MetaDataColumns,
          pixelSpan \in PixelSpans, outerPadding \in {0, 10},
          isVertical \in BOOLEAN, isScalar \in BOOLEAN,
          categoryThickness \in {0, 20} :
           /\ isScalar => metaDataColumn.type.text
           /\ LET options == [pixelSpan |-> pixelSpan, dataDomain |-> Labels(n),
                              metaDataColumn |-> metaDataColumn,
                              outerPadding |-> outerPadding,
                              isScalar |-> isScalar, isVertical |-> isVertical,
                              forcedTickCount |-> Null,
                              categoryThickness |-> categoryThickness,
                              scaleType |-> "linear"]
              IN  Call("createScale", options, createScale(options))

\* The data domains of createAxis: the domains of a scalar axis, or the
\* index array of an ordinal axis.
AxisBounds == {NaN, 0 - One, 0, 40, One, 2 * One, 10 * One}

AxisDomains ==
    {NoDomain, <<Null, Null>>}
    \cup {d \in AxisBounds \X AxisBounds :
              IsNaN(d[1]) \/ IsNaN(d[2]) \/ d[1] <= d[2]}
    \cup {Labels(n) : n \in 0..MaxLabels}

\* A call of createAxis.  getValueFn is supplied for an axis that is not
\* scalar; the options that the call does not read keep one value.
CreateAxis ==
    /\ Idle
    /\ \E dataDomain \in AxisDomains, metaDataColumn \in MetaDataColumns,
          pixelSpan \in {200, 600}, isScalar \in BOOLEAN,
          scaleType \in {"linear", "log"}, forcedTickCount \in {Null, 1, 2},
          hasGetValueFn \in BOOLEAN, useTickInterval \in BOOLEAN,
          count \in {0, MaxGenerated}, before \in 0..1 :
           LET dataType == getCategoryValueType(metaDataColumn, isScalar)
               linear == isScalar /\ ~isOrdinal(dataType)
               options == [pixelSpan |-> pixelSpan, dataDomain |-> dataDomain,
                           metaDataColumn |-> metaDataColumn,
                           outerPadding |-> 0, isScalar |-> isScalar,
                           isVertical |-> FALSE,
                           forcedTickCount |-> forcedTickCount,
                           categoryThickness |-> 0, scaleType |-> scaleType,
                           getValueFn |-> hasGetValueFn,
                           useTickIntervalForDisplayUnits |-> useTickInterval,
                           dateSequence |-> [count |-> count,
                                             before |-> before]]
           IN  /\ (Len(dataDomain) = 0
                       \/ linear = (dataDomain \notin
                                        {Labels(n) : n \in 1..MaxLabels}))
               /\ (dataType.integer /\ Len(dataDomain) = 2
                       /\ dataDomain # <<Null, Null>>)
                      => (IsWhole(dataDomain[1]) /\ IsWhole(dataDomain[2]))
               /\ ~isScalar => hasGetValueFn
               /\ ~linear => (forcedTickCount = Null /\ ~useTickInterval)
               /\ ~(linear /\ dataType.numeric) => scaleType = "linear"
               /\ ~(linear /\ dataType.dateTime) => (count = 0 /\ before = 0)
               /\ Call("createAxis", options, createAxis(options))

\* The labels of willLabelsFit: up to MaxFitLabels texts of one to three
\* characters.
MaxFitLabels == 2
LabelTexts == {SubSeq(SampleText, 1, n) : n \in 1..3}
LabelLists == UNION {[1..k -> LabelTexts] : k \in 0..MaxFitLabels}

\* A call of willLabelsFit under a measurer that charges w per character.
WillLabelsFit ==
    /\ Idle
    /\ \E labels \in LabelLists, xLabelMaxWidth \in {Null, 1, 5, 10, 30},
          availableWidth \in {0, 10, 20, 60}, w \in CharWidths :
           LET textMeasurer == [k \in 1..3 |-> k * w]
               axisProperties == [values |-> labels,
                                  xLabelMaxWidth |-> xLabelMaxWidth]
           IN  Call("willLabelsFit",
                    [axisProperties |-> axisProperties,
                     availableWidth |-> availableWidth,
                     textMeasurer |-> textMeasurer],
                    willLabelsFit(axisProperties, availableWidth, textMeasurer))

\* The labels of willLabelsWordBreak: texts of one to three characters,
\* with and without a white space.
BreakLabelTexts ==
    {<<"H">>, <<"H", "e">>, <<"H", "e", "l">>, <<"H", " ">>, <<"H", " ", "W">>}

BreakLabelLists == UNION {[1..k -> BreakLabelTexts] : k \in 0..MaxFitLabels}

\* A call of willLabelsWordBreak under a measurer that charges w per
\* character.
WillLabelsWordBreak ==
    /\ Idle
    /\ \E labels \in BreakLabelLists, xLabelMaxWidth \in {Null, 1, 5, 10, 30},
          availableWidth \in {0, 10, 20, 60}, w \in CharWidths :
           LET textMeasurer == [k \in 1..3 |-> k * w]
               axisProperties == [values |-> labels,
                                  xLabelMaxWidth |-> xLabelMaxWidth]
           IN  Call("willLabelsWordBreak",
                    [axisProperties |-> axisProperties,
                     availableWidth |-> availableWidth,
                     textMeasurer |-> textMeasurer],
                    willLabelsWordBreak(axisProperties, availableWidth,
                                        textMeasurer))

\* The label lists of the x axis of getTickLabelMargins.
XLabelLists ==
    UNION {[1..k -> {SubSeq(SampleText, 1, 1), SubSeq(SampleText, 1, 3)}] :
               k \in 0..MaxFitLabels}

\* The y axes of getTickLabelMargins: y1 and the optional y2.
NoAxis == [present |-> FALSE, values |-> <<>>]
YAxes ==
    {<<[present |-> TRUE, values |-> <<>>], NoAxis>>,
     <<[present |-> TRUE, values |-> <<SubSeq(SampleText, 1, 3)>>], NoAxis>>,
     <<[present |-> TRUE, values |-> <<SubSeq(SampleText, 1, 1)>>],
       [present |-> TRUE, values |-> <<SubSeq(SampleText, 1, 2)>>]>>}

\* The layouts of the labels of the x axis: they fit, they are word-broken
\* into one or two lines on an ordinal axis, or they are rotated, with or
\* without a scrollbar.
XLabelLayouts ==
    {[willLabelsFit |-> TRUE, willLabelsWordBreak |-> FALSE, lines |-> 1,
      scrollbarVisible |-> FALSE],
     [willLabelsFit |-> FALSE, willLabelsWordBreak |-> TRUE, lines |-> 1,
      scrollbarVisible |-> FALSE],
     [willLabelsFit |-> FALSE, willLabelsWordBreak |-> TRUE, lines |-> 2,
      scrollbarVisible |-> FALSE],
     [willLabelsFit |-> FALSE, willLabelsWordBreak |-> FALSE, lines |-> 1,
      scrollbarVisible |-> FALSE],
     [willLabelsFit |-> FALSE, willLabelsWordBreak |-> FALSE, lines |-> 1,
      scrollbarVisible |-> TRUE]}

\* outerPadding and xLabelMaxWidth of the x axis; Null is undefined.
XLabelPaddings ==
    {[outerPadding |-> Null, xLabelMaxWidth |-> Null],
     [outerPadding |-> Null, xLabelMaxWidth |-> 10 * PixelUnit],
     [outerPadding |-> 5 * PixelUnit, xLabelMaxWidth |-> Null]}

\* yMarginLimit and bottomMarginLimit: 0, 10.5 and 25 pixels.
MarginLimits ==
    {<<0, 0>>, <<1050, 1050>>, <<2500, 1050>>, <<1050, 2500>>, <<2500, 2500>>}

\* A call of getTickLabelMargins under a measurer that charges w pixels per
\* character; both y axes are rendered.
GetTickLabelMargins ==
    /\ Idle
    /\ \E xLabels \in XLabelLists, yAxes \in YAxes, layout \in XLabelLayouts,
          padding \in XLabelPaddings, limits \in MarginLimits,
          w \in {3, 10}, categoryThickness \in {0, 20 * PixelUnit},
          showOnRight \in BOOLEAN, renderXAxis \in BOOLEAN :
           LET textWidthMeasurer == [k \in 1..3 |-> k * w * PixelUnit]
               viewport == [width |-> 40 * PixelUnit, height |-> 200 * PixelUnit]
               x == [values |-> xLabels,
                     willLabelsFit |-> layout.willLabelsFit,
                     willLabelsWordBreak |-> layout.willLabelsWordBreak,
                     axisType |-> [NoType EXCEPT !.text = TRUE],
                     categoryThickness |-> categoryThickness,
                     outerPadding |-> padding.outerPadding,
                     xLabelMaxWidth |-> padding.xLabelMaxWidth]
               axes == [x |-> x, y1 |-> yAxes[1], y2 |-> yAxes[2]]
           IN  Call("getTickLabelMargins",
                    [viewport |-> viewport, yMarginLimit |-> limits[1],
                     bottomMarginLimit |-> limits[2],
                     textWidthMeasurer |-> textWidthMeasurer,
                     axes |-> axes, lines |-> layout.lines,
                     scrollbarVisible |-> layout.scrollbarVisible,
                     showOnRight |-> showOnRight, renderXAxis |-> renderXAxis],
                    getTickLabelMargins(viewport, limits[1], textWidthMeasurer,
                        TextHeightConstant * PixelUnit, layout.lines, axes,
                        limits[2], layout.scrollbarVisible, showOnRight,
                        renderXAxis, TRUE, TRUE))

\* The same operation called twice with the same argument objects: the
\* second call finds in properties.text what the first call left there.
CallTwice ==
    /\ Idle
    /\ \/ \E n \in 1..MaxTextLen, maxWidth \in {0, 10, 20, 40, 60},
             w \in CharWidths :
              LET measurer == [k \in 1..(MaxTextLen + 6) |-> k * w]
                  first == getTailoredTextOrDefault(measurer,
                               SubSeq(SampleText, 1, n), maxWidth)
                  second == getTailoredTextOrDefault(measurer,
                                first.propertiesText, maxWidth)
              IN  Call("twice",
                       [operation |-> "getTailoredTextOrDefault",
                        propertiesText |-> SubSeq(SampleText, 1, n),
                        maxWidth |-> maxWidth, measurer |-> measurer],
                       [first |-> first.text,
                        propertiesText |-> first.propertiesText,
                        second |-> second.text])
       \/ \E labels \in BreakLabelLists, xLabelMaxWidth \in {Null, 5, 10},
             availableWidth \in {10, 60}, w \in CharWidths,
             text \in {<<>>, <<"H">>}, operation \in {"willLabelsFit",
                                                      "willLabelsWordBreak"} :
              LET textMeasurer == [k \in 1..3 |-> k * w]
                  axisProperties == [values |-> labels,
                                     xLabelMaxWidth |-> xLabelMaxWidth]
                  result == IF operation = "willLabelsFit"
                            THEN willLabelsFit(axisProperties, availableWidth,
                                               textMeasurer)
                            ELSE willLabelsWordBreak(axisProperties,
                                     availableWidth, textMeasurer)
              IN  Call("twice",
                       [operation |-> operation, propertiesText |-> text,
                        axisProperties |-> axisProperties,
                        availableWidth |-> availableWidth,
                        textMeasurer |-> textMeasurer],
                       [first |-> result,
                        propertiesText |->
                            IF operation = "willLabelsFit"
                            THEN willLabelsFitPropertiesText(axisProperties,
                                     availableWidth, textMeasurer, text)
                            ELSE willLabelsWordBreakPropertiesText(
                                     axisProperties, availableWidth,
                                     textMeasurer, text),
                        second |-> result])

\* The widths and heights of getMargin, around the breakpoints, and its
\* margins.
AvailableSpans == {0, 100, 149, 150, 249, 250, 299, 300, 499, 500, 600}
Margins == {0, 30, 700}

\* A call of getMargin, with the tick counts it asks for.
GetMargin ==
    /\ Idle
    /\ \E availableWidth \in AvailableSpans, availableHeight \in AvailableSpans,
          xMargin \in Margins, yMargin \in Margins :
           Call("getMargin",
                [availableWidth |-> availableWidth,
                 availableHeight |-> availableHeight,
                 xMargin |-> xMargin, yMargin |-> yMargin],
                [margin |-> getMargin(availableWidth, availableHeight, xMargin,
                                      yMargin),
                 xTicks |-> getRecommendedNumberOfTicksForXAxis(
                                availableWidth - xMargin),
                 yTicks |-> getRecommendedNumberOfTicksForYAxis(
                                availableHeight - yMargin)])

Next ==
    \/ NormalizeLinearDomain
    \/ CombineDomain
    \/ OrdinalRange
    \/ GetTailoredTextOrDefault
    \/ GetTailoredTextPerCharacter
    \/ GetTailoredTextAnyMeasurer
    \/ GetRecommendedTickValues
    \/ QuantitativeRange
    \/ GetBestNumberOfTicks
    \/ NormalizeNonFiniteNumber
    \/ CreateScale
    \/ CreateOrdinalScale
    \/ CreateAxis
    \/ WillLabelsFit
    \/ WillLabelsWordBreak
    \/ GetTickLabelMargins
    \/ CallTwice
    \/ GetMargin
    \/ Return

Spec == Init /\ [][Next]_vars

(***************************************************************************)
(* Sequences of estimateSvgTextHeight calls: the storage outlives a call.  *)
(***************************************************************************)
HeightTexts == {<<"M">>, <<"g", "y">>}

EstimateSvgTextHeight ==
    /\ Idle
    /\ \E pair \in FontPairs, text \in HeightTexts, h \in MeasuredHeights :
          LET r == estimateSvgTextHeight(pair[1], pair[2], h)
          IN  /\ op' = "estimateSvgTextHeight"
              /\ args' = [fontFamily |-> pair[1], fontSize |-> pair[2],
                          text |-> text]
              /\ ret' = [height |-> r.height, measured |-> r.measured]
              /\ storage' = r.storage
              /\ stored' = IF r.measured
                           THEN [stored EXCEPT ![pair] = r.height]
                           ELSE stored
              /\ UNCHANGED charts

HeightNext ==
    \/ EstimateSvgTextHeight
    \/ Return

HeightSpec == Init /\ [][HeightNext]_vars

(***************************************************************************)
(* Two funnel charts, each receiving its own sequence of calls after init. *)
(***************************************************************************)
ChartCall(o, a, c, chart) ==
    /\ op' = o
    /\ args' = a
    /\ ret' = chart.axisOptions
    /\ charts' = [charts EXCEPT ![c] = chart]
    /\ UNCHANGED <<storage, stored>>

Update ==
    /\ Idle
    /\ \E c \in ChartIds, dataViews \in ChartDataViews, viewport \in Viewports :
          ChartCall("update",
                    [chart |-> c, dataViews |-> dataViews, viewport |-> viewport],
                    c, update(charts[c], [dataViews |-> dataViews,
                                          viewport |-> viewport]))

OnDataChanged ==
    /\ Idle
    /\ \E c \in ChartIds, dataViews \in ChartDataViews :
          ChartCall("onDataChanged", [chart |-> c, dataViews |-> dataViews],
                    c, onDataChanged(charts[c], dataViews))

OnResizing ==
    /\ Idle
    /\ \E c \in ChartIds, viewport \in Viewports :
          ChartCall("onResizing", [chart |-> c, viewport |-> viewport],
                    c, onResizing(charts[c], viewport))

ChartNext ==
    \/ Update
    \/ OnDataChanged
    \/ OnResizing
    \/ Return

ChartSpec == Init /\ [][ChartNext]_vars

(***************************************************************************)
(* Properties of normalizeLinearDomain.                                    *)
(***************************************************************************)
IsNormalize == op = "normalizeLinearDomain"

\* C3: normalizeLinearDomain is idempotent: applying it to its own result
\* gives the same min and max.
C3_Idempotent == IsNormalize => ret.twice = ret.once

\* C4: for every input domain with a NaN bound or with min <= max, the
\* domain returned by normalizeLinearDomain has min <= max.
C4_MinLeMax == IsNormalize => ret.once.min <= ret.once.max

\* C7: with non-NaN bounds, min # max and not both zero, min is set to 0
\* exactly when |min| < 1e-4 and |min| / (max - min) < 1e-4; otherwise the
\* domain is returned unchanged.
C7_SnapIffMagnitude ==
    (/\ IsNormalize
     /\ ~IsNaN(args.min) /\ ~IsNaN(args.max)
     /\ args.min # args.max)
    => IF /\ Abs(args.min) < Epsilon
          /\ RatioBelowEpsilon(Abs(args.min), args.max - args.min)
       THEN ret.once = [min |-> 0, max |-> args.max]
       ELSE ret.once = args

\* C9: a degenerate domain min = max = v with v # 0 becomes [0.8v, 1.2v]
\* for v > 0 and [1.2v, 0.8v] for v < 0, so v lies strictly inside it.
C9_DegenerateExpansion ==
    (IsNormalize /\ ~IsNaN(args.min) /\ args.min = args.max /\ args.min # 0)
    => LET v == args.min
       IN  /\ v > 0 => ret.once = [min |-> (4 * v) \div 5, max |-> (6 * v) \div 5]
           /\ v < 0 => ret.once = [min |-> (6 * v) \div 5, max |-> (4 * v) \div 5]
           /\ ret.once.min < v
           /\ v < ret.once.max

\* The domain [5, 5] has been normalized to [4, 6].
C9_Witness ==
    /\ IsNormalize
    /\ args = [min |-> 5 * One, max |-> 5 * One]
    /\ ret.once = [min |-> 4 * One, max |-> 6 * One]

(***************************************************************************)
(* Properties of combineDomain.                                            *)
(***************************************************************************)
Substituted(forced, domain) ==
    [i \in 1..2 |-> IF forced[i] = Null THEN domain[i] ELSE forced[i]]

\* C10: combineDomain returns the computed bounds with each non-null forced
\* bound substituted, or the computed domain unchanged when the substituted
\* pair has min > max; an ordered computed domain gives an ordered result.
C10_CombineDomain ==
    op = "combineDomain"
    => LET sub == Substituted(args.forced, args.domain)
       IN  /\ sub[1] > sub[2] => ret = args.domain
           /\ sub[1] <= sub[2] => ret = sub
           /\ args.domain[1] <= args.domain[2] => ret[1] <= ret[2]

\* A forced minimum above the computed maximum has been dropped.
C10_Witness ==
    /\ op = "combineDomain"
    /\ args.forced[1] # Null
    /\ args.forced[1] > args.domain[2]
    /\ args.forced[2] = Null
    /\ args.domain[1] <= args.domain[2]
    /\ ret = args.domain

(***************************************************************************)
(* Properties of getRecommendedTickValuesForAnOrdinalRange.                *)
(***************************************************************************)
IsOrdinalRange == op = "getRecommendedTickValuesForAnOrdinalRange"

\* C6: with maxTicks >= 1 the labels are returned unchanged when there are
\* at most maxTicks of them, and otherwise exactly the labels at indices
\* 0, s, 2s, ... with s = floor(length / maxTicks), in order.
C6_OrdinalStride ==
    (IsOrdinalRange /\ args.maxTicks >= 1)
    => LET n == Len(args.labels)
           s == n \div args.maxTicks
       IN  IF n <= args.maxTicks
           THEN ret = args.labels
           ELSE /\ \A j \in 1..Len(ret) : ret[j] = args.labels[(j - 1) * s + 1]
                /\ (Len(ret) - 1) * s < n
                /\ Len(ret) * s >= n
                /\ ret[1] = args.labels[1]

\* Five labels with maxTicks = 2 gave the labels at indices 0, 2 and 4.
C6_Witness ==
    /\ IsOrdinalRange
    /\ args.maxTicks = 2
    /\ Len(args.labels) = 5
    /\ ret = <<args.labels[1], args.labels[3], args.labels[5]>>

(***************************************************************************)
(* Properties of getTailoredTextOrDefault.                                 *)
(***************************************************************************)
IsTailor == op = "getTailoredTextOrDefault"

\* C2: for every non-empty text and every maxWidth, under a
\* measurer that is non-decreasing in the length, the returned string
\* measures at most maxWidth.
C2_NeverOverflows ==
    (IsTailor /\ Len(args.text) > 0)
    => measureSvgTextWidth(args.measurer, ret.text) <= args.maxWidth

(***************************************************************************)
(* Properties of getRecommendedTickValues.                                 *)
(***************************************************************************)
\* C1: for every scale, value type and maxTickCount >= 1,
\* getRecommendedTickValues returns at most maxTickCount + 1 tick values.
C1_TickCountBound ==
    (op = "getRecommendedTickValues" /\ args.maxTicks >= 1)
    => Len(ret) <= args.maxTicks + 1

(***************************************************************************)
(* Properties of createScale.                                              *)
(***************************************************************************)
\* createScale was called for a scalar axis with a two-element domain of
\* numbers (possibly NaN).
IsScalarCreateScale ==
    /\ op = "createScale"
    /\ args.isScalar
    /\ Len(args.dataDomain) = 2
    /\ args.dataDomain[1] # Null
    /\ args.dataDomain[2] # Null

AxisType == getCategoryValueType(args.metaDataColumn, args.isScalar)

\* C8: when either bound of the two-element data domain is NaN, or both are
\* 0, the domain of the scale is the fallback range: [0, 10] on a numeric
\* axis and fallbackDateDomain on a date-time axis.
C8_FallbackDomain ==
    (/\ IsScalarCreateScale
     /\ AxisType.numeric \/ AxisType.dateTime
     /\ \/ IsNaN(args.dataDomain[1])
        \/ IsNaN(args.dataDomain[2])
        \/ (args.dataDomain[1] = 0 /\ args.dataDomain[2] = 0))
    => ret.scale.domain = IF AxisType.dateTime THEN fallbackDateDomain
                                               ELSE fallBackDomain

\* createScale was called for a scalar axis over [min, max] with min < max
\* and returned a linear or log scale.
IsOrderedQuantitative ==
    /\ IsScalarCreateScale
    /\ ~IsNaN(args.dataDomain[1])
    /\ ~IsNaN(args.dataDomain[2])
    /\ args.dataDomain[1] < args.dataDomain[2]
    /\ ret.scale.kind \in {"linear", "log"}

\* The bounds of the data domain and of the domain of the scale.
SamplePoints ==
    {args.dataDomain[1], args.dataDomain[2],
     ret.scale.domain[1], ret.scale.domain[2]}

\* The scale sends the smaller of two sample points to the smaller pixel,
\* or to the larger one on a vertical axis.
MonotonicPerVerticalFlag ==
    /\ ScaleDiffers(ret.scale, args.dataDomain[1], args.dataDomain[2])
    /\ \A x \in SamplePoints, y \in SamplePoints :
           x < y => IF args.isVertical
                    THEN ScaleLess(ret.scale, y, x)
                    ELSE ScaleLess(ret.scale, x, y)

\* C5: for a scalar domain with min < max and every pixelSpan and
\* outerPadding >= 0, scale(min) # scale(max) and the scale is strictly
\* monotonic: increasing when isVertical is false, decreasing when true.
\* Stated here for the pixel spans that leave room between the outer
\* paddings, where a scale with a domain in ascending order is monotonic.
C5_ScaleMonotonic ==
    (IsOrderedQuantitative /\ args.pixelSpan > 2 * args.outerPadding)
    => MonotonicPerVerticalFlag

(***************************************************************************)
(* Properties of getRecommendedTickValuesForAQuantitativeRange.            *)
(***************************************************************************)
IsQuantitativeRange == op = "getRecommendedTickValuesForAQuantitativeRange"

\* The result held after the first i calls of the tick generator.
HeldAfter(i) == ret.generated[i]

\* C11: the tick generator is called first with maxTicks; then with
\* maxTicks - 1 if and only if the first result has more than maxTicks values
\* and maxTicks > 1; then with maxTicks + 1 if and only if the result held at
\* that point has fewer than 2 values.  With maxTicks = 0 no call is made and
\* the result is empty.
C11_GeneratorCalls ==
    IsQuantitativeRange =>
        IF args.maxTicks = 0
        THEN ret.calls = <<>> /\ ret.ticks = <<>>
        ELSE LET m == args.maxTicks
                 down == Len(HeldAfter(1)) > m /\ m > 1
                 held == IF down THEN HeldAfter(2) ELSE HeldAfter(1)
                 up == Len(held) < 2
             IN  /\ ret.calls = <<m>> \o (IF down THEN <<m - 1>> ELSE <<>>)
                                      \o (IF up THEN <<m + 1>> ELSE <<>>)
                 /\ Len(ret.generated) = Len(ret.calls)
                 /\ \A i \in 1..Len(ret.calls) :
                        ret.generated[i]
                            = d3LinearTicks(args.scale.domain, ret.calls[i])

\* maxTicks = 5 and a generator that returns 6 values: the second call asks
\* for 4.
C11_Witness ==
    /\ IsQuantitativeRange
    /\ args.maxTicks = 5
    /\ Len(ret.generated[1]) = 6
    /\ ret.calls = <<5, 4>>

\* The ticks the generator left before the trimming to minInterval.
GeneratedTicks == ret.generated[Len(ret.generated)]

\* C12: with minInterval > 0 and at least 2 generated ticks whose spacing is
\* below minInterval, the first and the last generated tick are both kept,
\* every returned tick is a generated one, consecutive returned ticks are at
\* least minInterval apart, and at least 2 ticks are returned.
C12_TrimKeepsEnds ==
    (/\ IsQuantitativeRange
     /\ args.maxTicks > 0
     /\ args.minInterval > 0
     /\ Len(GeneratedTicks) >= 2
     /\ GeneratedTicks[2] - GeneratedTicks[1] < args.minInterval)
    => /\ Len(ret.ticks) >= 2
       /\ ret.ticks[1] = GeneratedTicks[1]
       /\ ret.ticks[Len(ret.ticks)] = GeneratedTicks[Len(GeneratedTicks)]
       /\ \A j \in 1..Len(ret.ticks) :
              \E k \in 1..Len(GeneratedTicks) : ret.ticks[j] = GeneratedTicks[k]
       /\ \A j \in 1..(Len(ret.ticks) - 1) :
              ret.ticks[j + 1] - ret.ticks[j] >= args.minInterval

(***************************************************************************)
(* Properties of getBestNumberOfTicks.                                     *)
(***************************************************************************)
IsBestTicks == op = "getBestNumberOfTicks"

\* The values lie between -1 and 1.
WithinUnit == args.min >= 0 - One /\ args.max <= One

\* Every column is integer-typed; every column that has a type is.
EveryColumnInteger ==
    \A i \in 1..Len(args.valuesMetadata) : args.valuesMetadata[i].type.integer

NoColumnNonInteger ==
    \A i \in 1..Len(args.valuesMetadata) :
        \/ ~args.valuesMetadata[i].present
        \/ args.valuesMetadata[i].type = NoType
        \/ args.valuesMetadata[i].type.integer

\* ret = min(max - min + 1, maxTickCount), compared in the unit of the bounds.
IsMinOfSpanAndCount ==
    IF args.max - args.min + One <= args.maxTickCount * One
    THEN ret * One = args.max - args.min + One
    ELSE ret = args.maxTickCount

PerCharacter ==
    \A k \in DOMAIN args.measurer : args.measurer[k] = k * args.measurer[1]

CharWidth == args.measurer[1]

C15_FittingTextUnchanged ==
    (/\ IsTailor
     /\ measureSvgTextWidth(args.measurer, args.text) <= args.maxWidth)
    => ret.text = args.text

(***************************************************************************)
(* Properties of the kind of scale createScale builds.                     *)
(***************************************************************************)
\* Both numbers are nonzero and have the same sign.
SameSignNonZero(a, b) ==
    /\ ~IsNaN(a)
    /\ ~IsNaN(b)
    /\ (a > 0 /\ b > 0) \/ (a < 0 /\ b < 0)

\* The domain createScale hands to createNumericalScale: the fallback domain
\* when the data domain is missing, the normalized data domain otherwise.
GivenDomain(options) ==
    IF IsDefaultDomain(options.dataDomain, options.isScalar)
    THEN (IF getCategoryValueType(options.metaDataColumn,
                                  options.isScalar).dateTime
          THEN fallbackDateDomain
          ELSE fallBackDomain)
    ELSE LET normalized ==
                 normalizeLinearDomain([min |-> options.dataDomain[1],
                                        max |-> options.dataDomain[2]])
         IN  <<normalized.min, normalized.max>>

\* C16: the scale is logarithmic only when the requested scale type is log,
\* the axis is not date-time and both bounds of the domain handed to
\* createNumericalScale are nonzero with the same sign.
C16_LogOnlySameSign ==
    (op = "createScale" /\ ret.scale.kind = "log")
    => /\ args.scaleType = "log"
       /\ ~AxisType.dateTime
       /\ SameSignNonZero(GivenDomain(args)[1], GivenDomain(args)[2])
       /\ SameSignNonZero(ret.scale.domain[1], ret.scale.domain[2])

\* A log scale over a negative domain, asked for on a numeric axis.
C16_Witness ==
    /\ op = "createScale"
    /\ args.scaleType = "log"
    /\ AxisType.numeric
    /\ ret.scale.kind = "log"
    /\ ret.scale.domain[2] < 0

\* C17: the scale of a scalar date-time axis is linear and built without a
\* nice hint: its domain is exactly the normalized data domain, or the
\* fallback date domain when the data domain is missing.
C17_DateTimeDomainExact ==
    (op = "createScale" /\ args.isScalar /\ AxisType.dateTime)
    => /\ ret.scale.kind = "linear"
       /\ ret.scale.domain = GivenDomain(args)

(***************************************************************************)
(* Properties of normalizeNonFiniteNumber.                                 *)
(***************************************************************************)
IsNormalizeNonFinite == op = "normalizeNonFiniteNumber"

\* x is a number that is neither NaN nor infinite; null is no number.
IsFiniteNumber(x) == x \notin {NaN, Null, Infinity, 0 - Infinity}

\* C18 as stated: the result is a finite number for every input: the largest
\* finite value for +Infinity, its negation for -Infinity, a finite sentinel
\* for NaN, and the input itself when it is finite.
C18_AlwaysFinite ==
    IsNormalizeNonFinite =>
        /\ IsFiniteNumber(ret)
        /\ args = Infinity => ret = MaxValue
        /\ args = 0 - Infinity => ret = 0 - MaxValue
        /\ IsFiniteNumber(args) => ret = args

\* C18 as amended: the result is never NaN or infinite; it is the largest
\* finite value for +Infinity, its negation for -Infinity, the input itself
\* when it is finite, and null, which is no number, for NaN.
C18_FiniteOrNull ==
    IsNormalizeNonFinite =>
        /\ ret \notin {NaN, Infinity, 0 - Infinity}
        /\ args = Infinity => ret = MaxValue
        /\ args = 0 - Infinity => ret = 0 - MaxValue
        /\ IsFiniteNumber(args) => ret = args
        /\ IsNaN(args) => ret = Null
        /\ ret = Null => IsNaN(args)

\* NaN has been normalized to null.
C18_Witness ==
    /\ IsNormalizeNonFinite
    /\ IsNaN(args)
    /\ ret = Null

(***************************************************************************)
(* Properties of createAxis.                                               *)
(***************************************************************************)
IsCreateAxis == op = "createAxis"

\* The label of tick i of the returned axis when the tick is formatted as
\* it is, and when it is first looked up by getValueFn.
PlainLabel(i) == Format(ret.formatter, ret.tickValues[i])
LookedUpLabel(i) == FormatLookedUp(ret.formatter, ret.tickValues[i])

\* C19 as stated: with or without a metaDataColumn, values has one entry per
\* chosen tick value, in the order of the ticks: entry i is the formatter
\* applied to tick i, which is first looked up by getValueFn on an ordinal
\* axis.
C19_OneLabelPerTick ==
    IsCreateAxis =>
        /\ Len(ret.values) = Len(ret.tickValues)
        /\ \A i \in 1..Len(ret.values) :
               IF ret.scale.kind = "ordinal" /\ args.getValueFn
               THEN ret.values[i] = LookedUpLabel(i)
               ELSE ret.values[i] \in {PlainLabel(i), LookedUpLabel(i)}

\* C19 as amended: with a metaDataColumn, values has one entry per chosen
\* tick value, in the order of the ticks: entry i is the formatter applied
\* to tick i, which is first looked up by getValueFn when getValueFn is
\* supplied and the axis is not a numeric scalar axis.  Without a
\* metaDataColumn, values is empty.
C19_OneLabelPerTickOfColumn ==
    IsCreateAxis =>
        IF args.metaDataColumn.present
        THEN /\ Len(ret.values) = Len(ret.tickValues)
             /\ \A i \in 1..Len(ret.values) :
                    ret.values[i] =
                        IF args.getValueFn
                           /\ ~(ret.axisType.numeric /\ args.isScalar)
                        THEN LookedUpLabel(i)
                        ELSE PlainLabel(i)
        ELSE ret.values = <<>>

\* An ordinal axis of a text column with several ticks, each looked up and
\* formatted.
C19_Witness ==
    /\ IsCreateAxis
    /\ args.metaDataColumn.present
    /\ ret.scale.kind = "ordinal"
    /\ Len(ret.tickValues) >= 3
    /\ Len(ret.values) = Len(ret.tickValues)
    /\ ret.values[2] = LookedUpLabel(2)
    /\ ret.values[2] # PlainLabel(2)

(***************************************************************************)
(* Properties of willLabelsFit.                                            *)
(***************************************************************************)
IsWillLabelsFit == op = "willLabelsFit"

\* Label i of the call is wider than the width allowed to a label:
\* xLabelMaxWidth, or availableWidth / labelCount when it is undefined.
LabelTooWide(i) ==
    LET width == args.textMeasurer[Len(args.axisProperties.values[i])]
        labelCount == Len(args.axisProperties.values)
    IN  IF args.axisProperties.xLabelMaxWidth # Null
        THEN width > args.axisProperties.xLabelMaxWidth
        ELSE width * labelCount > args.availableWidth

SomeLabelTooWide ==
    \E i \in 1..Len(args.axisProperties.values) : LabelTooWide(i)

\* C20 as stated: the labels do not fit exactly when some label is wider
\* than labelMaxWidth; when no label is, and so for an empty list of
\* labels, they fit.
C20_FitsIffNoneTooWide ==
    IsWillLabelsFit => (ret = ~SomeLabelTooWide)

\* C20 as amended: the labels do not fit exactly when the list of labels is
\* empty or some label is wider than labelMaxWidth.
C20_FitsIffSomeAndNoneTooWide ==
    IsWillLabelsFit =>
        (ret = (Len(args.axisProperties.values) > 0 /\ ~SomeLabelTooWide))

\* Two labels that would each fit the available width, of which one is
\* wider than its half: without xLabelMaxWidth they do not fit.
C20_Witness ==
    /\ IsWillLabelsFit
    /\ args.axisProperties.xLabelMaxWidth = Null
    /\ Len(args.axisProperties.values) = 2
    /\ LabelTooWide(2)
    /\ ~LabelTooWide(1)
    /\ args.textMeasurer[Len(args.axisProperties.values[2])]
           <= args.availableWidth
    /\ ret = FALSE

(***************************************************************************)
(* Properties of willLabelsWordBreak.                                      *)
(***************************************************************************)
IsWillLabelsWordBreak == op = "willLabelsWordBreak"

\* Label i of the call has a white space.
LabelHasBreak(i) ==
    \E j \in 1..Len(args.axisProperties.values[i]) :
        args.axisProperties.values[i][j] = " "

\* C21: for a non-empty list of labels the result is true exactly when every
\* label wider than labelMaxWidth has a break opportunity; so it is true
\* whenever willLabelsFit is true of the same arguments, and false when some
\* label is too wide and has no break opportunity.
C21_WordBreakIffLongLabelsBreak ==
    (IsWillLabelsWordBreak /\ Len(args.axisProperties.values) > 0) =>
        /\ ret = (\A i \in 1..Len(args.axisProperties.values) :
                      LabelTooWide(i) => LabelHasBreak(i))
        /\ willLabelsFit(args.axisProperties, args.availableWidth,
                         args.textMeasurer) => ret
        /\ (\E i \in 1..Len(args.axisProperties.values) :
                LabelTooWide(i) /\ ~LabelHasBreak(i)) => ~ret

\* Two labels that do not fit, of which the one that is too wide has a white
\* space: they can be word-broken.
C21_Witness ==
    /\ IsWillLabelsWordBreak
    /\ Len(args.axisProperties.values) = 2
    /\ LabelTooWide(1)
    /\ LabelHasBreak(1)
    /\ ~LabelHasBreak(2)
    /\ ~willLabelsFit(args.axisProperties, args.availableWidth,
                      args.textMeasurer)
    /\ ret = TRUE

(***************************************************************************)
(* Properties of getTickLabelMargins.                                      *)
(***************************************************************************)
IsTickLabelMargins == op = "getTickLabelMargins"

\* C22: the margins returned are within the limits of the caller: xMax is
\* at most bottomMarginLimit, yLeft and yRight are at most yMarginLimit.
C22_MarginsWithinLimits ==
    IsTickLabelMargins =>
        /\ ret.xMax <= args.bottomMarginLimit
        /\ ret.yLeft <= args.yMarginLimit
        /\ ret.yRight <= args.yMarginLimit

\* Half the width of the last label of the x axis, less its offset and the
\* outer padding.
LastLabelOverflow ==
    LET x == args.axes.x
    IN  args.textWidthMeasurer[Len(x.values[Len(x.values)])] \div 2
            - labelOffsetOf(x) - xLabelOuterPaddingOf(x, args.viewport)

\* C23: when the x axis is rendered, its labels fit without rotation and
\* half the width of the last label exceeds its offset plus the outer
\* padding, the right margin is at least the least of that overflow, 25
\* pixels and yMarginLimit, for one label as for several.
C23_RightOverflowCounted ==
    (/\ IsTickLabelMargins
     /\ args.renderXAxis
     /\ args.axes.x.willLabelsFit
     /\ Len(args.axes.x.values) >= 1
     /\ LastLabelOverflow > 0)
    => ret.yRight >= Min2(Min2(LastLabelOverflow,
                               XLabelMaxAllowedOverflow * PixelUnit),
                          args.yMarginLimit)

(***************************************************************************)
(* Properties of the TextProperties argument.                              *)
(***************************************************************************)
IsCallTwice == op = "twice"

\* C24: willLabelsFit, willLabelsWordBreak and getTailoredTextOrDefault
\* leave the text of the TextProperties they are handed as it was, and a
\* second call with the same argument objects returns what the first
\* returned.
C24_PropertiesTextKept ==
    IsCallTwice =>
        /\ ret.propertiesText = args.propertiesText
        /\ ret.second = ret.first

(***************************************************************************)
(* Properties of createScale without pixels.                               *)
(***************************************************************************)
\* C25: createScale for a scalar axis with a data domain, a forcedTickCount
\* and a pixelSpan of 0 returns bestTickCount = 0.
C25_NoTicksWithoutSpace ==
    (/\ IsScalarCreateScale
     /\ ~IsDefaultDomain(args.dataDomain, args.isScalar)
     /\ args.forcedTickCount # Null
     /\ args.pixelSpan = 0)
    => ret.bestTickCount = 0

(***************************************************************************)
(* Properties of the recommended numbers of ticks and of getMargin.        *)
(***************************************************************************)
IsGetMargin == op = "getMargin"

\* The number of ticks of the claim for a span, with its two breakpoints.
TicksByBreakpoints(span, low, high) ==
    IF span < low THEN 3 ELSE IF span < high THEN 5 ELSE 8

\* C30: the recommended numbers of ticks are 3, 5 or 8, never 0, with the
\* breakpoints 250 and 500 for the x axis and 150 and 300 for the y axis,
\* and do not decrease with the width; so getMargin returns the margins
\* top 20, right 30, bottom 40, left 30 whatever its arguments are.
C30_TicksNeverZero ==
    IsGetMargin =>
        /\ ret.xTicks = TicksByBreakpoints(args.availableWidth - args.xMargin,
                                           250, 500)
        /\ ret.yTicks = TicksByBreakpoints(args.availableHeight - args.yMargin,
                                           150, 300)
        /\ \A span \in AvailableSpans :
               /\ span <= args.availableWidth - args.xMargin
                      => getRecommendedNumberOfTicksForXAxis(span) <= ret.xTicks
               /\ span <= args.availableHeight - args.yMargin
                      => getRecommendedNumberOfTicksForYAxis(span) <= ret.yTicks
        /\ ret.margin = [top |-> 20, right |-> 30, bottom |-> 40, left |-> 30]

\* No width and no height are left after the margins, and the margins are
\* the default ones.
C30_Witness ==
    /\ IsGetMargin
    /\ args.availableWidth - args.xMargin <= 0
    /\ args.availableHeight - args.yMargin <= 0
    /\ ret.xTicks = 3
    /\ ret.margin.left = 30

(***************************************************************************)
(* Properties of estimateSvgTextHeight.                                    *)
(***************************************************************************)
IsEstimateHeight == op = "estimateSvgTextHeight"

\* The font pair of the call that a step makes.
CalledPair == <<args'.fontFamily, args'.fontSize>>

\* C26: once a call has measured and stored a height for a fontFamily and
\* fontSize (whatever the height, 0 included), every later call with that
\* pair returns the stored height without measuring, and a call with a
\* pair that has stored nothing never gets a stored height: it measures.
C26_StoredHeightReusedPerPair ==
    [][IsEstimateHeight' =>
         /\ stored[CalledPair] # Null =>
               ~ret'.measured /\ ret'.height = stored[CalledPair]
         /\ stored[CalledPair] = Null => ret'.measured]_vars

(***************************************************************************)
(* Properties of the binary search of getTailoredTextOrDefault.            *)
(***************************************************************************)
IsTailorAnyMeasurer == op = "getTailoredTextAnyMeasurer"

\* C27: under every measurer, monotonic or not, the same from one call to
\* the next or not, the binary search ends after at most
\* floor(log2(n)) + 1 iterations, n being the text length plus 3, and the
\* length i it selects satisfies 0 <= i <= n.
C27_SearchBounded ==
    IsTailorAnyMeasurer /\ ret.searched =>
        /\ ret.n = Len(args.text) + 3
        /\ ret.iterations >= 1
        /\ ret.iterations <= FloorLog2(ret.n) + 1
        /\ 0 <= ret.i /\ ret.i <= ret.n

\* A non-monotonic measurer drives the search through the most iterations
\* it can make, and the step back after the loop gives the length 0.
C27_Witness ==
    /\ IsTailorAnyMeasurer /\ ret.searched
    /\ \E k \in 1..(Len(args.measurer) - 1) : args.measurer[k] > args.measurer[k + 1]
    /\ ret.iterations = FloorLog2(ret.n) + 1
    /\ ret.i = 0

(***************************************************************************)
(* Properties of the logarithmic axis of createAxis.                       *)
(***************************************************************************)
\* C28: whenever createAxis filters the tick values down to powers of ten
\* (scaleType is log and isLogScaleAllowed is true), the scale it returns
\* is a logarithmic scale.
C28_FilteredTicksOnLogScale ==
    IsCreateAxis /\ args.scaleType = "log" /\ ret.isLogScaleAllowed =>
        ret.scale.kind = "log"

(***************************************************************************)
(* Properties of FunnelChart.update.                                       *)
(***************************************************************************)
Updated(c) == charts[c].lastUpdate # NoAxisOptions

\* C29: the axis options of the last update (margin.left, verticalRange,
\* category labels) depend only on the dataViews and viewport of that
\* update: two charts whose last update was the same have the same axis
\* options, whatever calls came before.
C29_AxisOptionsOfLastUpdateOnly ==
    (Updated(1) /\ Updated(2) /\ charts[1].lastUpdate = charts[2].lastUpdate)
        => charts[1].axisOptions = charts[2].axisOptions

====
